---- MODULE Spec2Model ----
(***************************************************************************)
(* Ear-trainer application: the learner profile (UserStats) held by App,   *)
(* its persistence in the local store and in the remote store, and the     *)
(* GameSession state machine with its cancelable wrong-answer feedback.    *)
(*                                                                         *)
(* Numbers: a heatmap score is kept in twentieths (10 stands for 0.5, one  *)
(* step of 0.05 is 1); a calendar date is a day number, 0 standing for     *)
(* null; a challenge id of 0 stands for an absent id (Dojo, Practice); the *)
(* timers of a session count down in ticks of TickMs milliseconds; an      *)
(* octave range is kept in half octaves (3 stands for 1.5).  The titles of *)
(* the challenges and the descriptions of the questions are left out.      *)
(***************************************************************************)
EXTENDS Integers, Sequences, FiniteSets, TLC

VARIABLES
    stats,          \* App: useState<UserStats>
    mountStats,     \* the `stats` captured by the closure of the mount-time auth effect
    objects,        \* which objects stats and mountStats hold (Object.is tells them apart)
    user,           \* App: useState<User | null>
    localStore,     \* localStorage[STORAGE_KEY]
    cloud,          \* the remote document users/<uid>
    cloudPending,   \* a saveToCloud write issued and not yet acknowledged
    sync,           \* the frame of the syncWithCloud call in flight
    clock,          \* the instant `new Date()` returns and the time zone of the device
    heatUpdates,    \* number of heatmap updates issued so far
    sessions,       \* number of session results applied so far
    ses,            \* GameSession: the component state (useState cells)
    feedbackSequenceId, \* GameSession: useRef(0), the cancellation token
    feedbacks,      \* handleCheckSequence calls suspended in their wrong-answer feedback
    plays,          \* playChallenge calls suspended in their playback
    catalog,        \* the frame of the generateCurriculum call in progress
    gen,            \* the frame of the question generator call in progress
    storage         \* the last call of StorageService.load, save or reset and its outcome

profileVars == <<stats, mountStats, objects, user, localStore, cloud, cloudPending, sync, clock, heatUpdates, sessions>>
sessionVars == <<ses, feedbackSequenceId, feedbacks, plays>>
callVars == <<catalog, gen, storage>>
vars == <<stats, mountStats, objects, user, localStore, cloud, cloudPending, sync, clock, heatUpdates, sessions,
          ses, feedbackSequenceId, feedbacks, plays, catalog, gen, storage>>

-----------------------------------------------------------------------------
(* Bounds of the model *)

\* The catalog is cut to the ids 1..CatalogSize: the challenges of the first level,
\* the exam that ends it, and the first challenge of the next level.
CatalogSize == 3
\* Number of session results a run applies.
MaxSessions == 2
\* Number of syncWithCloud calls a run starts.
MaxSyncs == 1
\* Heatmap updates are issued for the intervals 0..MaxInterval only.
MaxInterval == 0
\* Number of heatmap updates a run issues outside a session.
MaxHeatUpdates == 1
\* Number of wrong answers and skips a session counts.
MaxMistakes == 3
\* Number of questions a session activates (Practice regenerates its batch without end).
MaxActivations == 3
\* REPEAT is pressed while fewer than MaxPlays playChallenge calls are pending.
MaxPlays == 1
\* Milliseconds of one tick of the session clock.
TickMs == 300
\* Number of days the calendar of a run covers.
MaxDays == 2
\* the calls of generateCurriculum
MaxCalls == 2
\* the largest count handed to the Dojo and Practice generators
MaxCount == 2

(* Program constants *)
HeatmapSize == 12
\* slice(0, 4) of getWeakSpots
WeakSpotCount == 4
\* the challenges of a level, its exam aside
TierSize == 50
XpPerLevel == 500

\* A store slot, a snapshot or a return value: <<>> when absent, <<profile>> when present
NoDoc == <<>>
Doc(profile) == <<profile>>
NoUser == "none"
Uid == "uid"
NoId == 0
NoDate == 0
\* the day the model starts on: the first day number whose yesterday is a date
FirstDay == NoDate + 2
\* An instant is a number of hours, a date is a number of days
HoursPerDay == 24

Max(a, b) == IF a >= b THEN a ELSE b
Min(a, b) == IF a <= b THEN a ELSE b

CatalogIds == 1..CatalogSize
ExamIds == {CatalogSize - 1}

\* Array.prototype.includes
Includes(arr, x) == \E i \in 1..Len(arr) : arr[i] = x

ToSet(arr) == {arr[i] : i \in 1..Len(arr)}

\* Array.from(new Set(arr)): the elements in the order of their first occurrence
RECURSIVE ArrayFromSet(_)
ArrayFromSet(arr) ==
    IF arr = <<>> THEN <<>>
    ELSE LET init == ArrayFromSet(SubSeq(arr, 1, Len(arr) - 1))
             last == arr[Len(arr)]
         IN IF Includes(init, last) THEN init ELSE Append(init, last)

INITIAL_STATS ==
    [ streak |-> 0, xp |-> 0, hearts |-> 5, level |-> 1,
      heatmap |-> [i \in 0..(HeatmapSize - 1) |-> 10],
      unlockedChallenges |-> <<1>>,
      highScores |-> <<>>,
      lastPlayedDate |-> NoDate,
      theme |-> "dark" ]

\* obj[id] || 0 on a Record<number, number>
ScoreOf(highScores, id) == IF id \in DOMAIN highScores THEN highScores[id] ELSE 0

\* { ...obj, [id]: v }
WithScore(highScores, id, v) ==
    [k \in (DOMAIN highScores) \cup {id} |-> IF k = id THEN v ELSE highScores[k]]

\* { ...a, ...b }: the keys of both, b's value where both have the key
Spread(a, b) ==
    [k \in (DOMAIN a) \cup (DOMAIN b) |-> IF k \in DOMAIN b THEN b[k] ELSE a[k]]

-----------------------------------------------------------------------------
(* StorageService *)

\* A time zone: its offset from UTC, in hours, before and after the instant
\* `change` at which daylight saving time begins or ends
UtcZone == [before |-> 0, after |-> 0, change |-> 0]
Zones ==
    { UtcZone,
      [before |-> -8, after |-> -7, change |-> (FirstDay + 1) * HoursPerDay + 10],
      [before |-> 2, after |-> 1, change |-> (FirstDay + 1) * HoursPerDay + 1] }

\* the clock at the start of a run: midnight UTC of FirstDay
StartClock(zone) == [now |-> FirstDay * HoursPerDay, zone |-> zone]

\* date.toISOString().split('T')[0]: the UTC date of an instant
toISODate(t) == t \div HoursPerDay

\* LocalTime(t) of Date: the instant as local time
LocalTime(zone, t) == t + (IF t < zone.change THEN zone.before ELSE zone.after)

\* UTC(t) of Date: a local time as an instant; a local time that occurs twice
\* or not at all is read with the offset before the change
UTC(zone, t) ==
    IF t - zone.before < zone.change THEN t - zone.before
    ELSE IF t - zone.after >= zone.change THEN t - zone.after
    ELSE t - zone.before

updateStreak(currentStats, c) ==
    LET today == toISODate(c.now)
        lastDate == currentStats.lastPlayedDate
        \* yesterday.setDate(yesterday.getDate() - 1): one day back in local time
        yesterday == UTC(c.zone, LocalTime(c.zone, c.now) - HoursPerDay)
        yesterdayString == toISODate(yesterday)
    IN IF lastDate = today
       THEN [currentStats EXCEPT !.lastPlayedDate = today]
       ELSE [currentStats EXCEPT
               !.streak = IF lastDate = yesterdayString
                          THEN currentStats.streak + 1 ELSE 1,
               !.lastPlayedDate = today]

\* mutant of mergedStats: the local score wins for an id both maps hold
mergedStats_LocalWins(localStats, cloudStats) ==
    [ localStats EXCEPT
        !.xp = Max(localStats.xp, cloudStats.xp),
        !.level = Max(localStats.level, cloudStats.level),
        !.unlockedChallenges =
            ArrayFromSet(localStats.unlockedChallenges \o cloudStats.unlockedChallenges),
        !.highScores = Spread(cloudStats.highScores, localStats.highScores),
        !.heatmap = cloudStats.heatmap,
        !.theme = localStats.theme,
        !.streak = Max(localStats.streak, cloudStats.streak) ]

\* mutant of mergedStats: the two arrays are concatenated without new Set(...)
mergedStats_NoDedup(localStats, cloudStats) ==
    [ localStats EXCEPT
        !.xp = Max(localStats.xp, cloudStats.xp),
        !.level = Max(localStats.level, cloudStats.level),
        !.unlockedChallenges = localStats.unlockedChallenges \o cloudStats.unlockedChallenges,
        !.highScores = Spread(localStats.highScores, cloudStats.highScores),
        !.heatmap = cloudStats.heatmap,
        !.theme = localStats.theme,
        !.streak = Max(localStats.streak, cloudStats.streak) ]

\* mutant of mergedStats: the two xp are added
mergedStats_AddsXp(localStats, cloudStats) ==
    [ localStats EXCEPT
        !.xp = localStats.xp + cloudStats.xp,
        !.level = Max(localStats.level, cloudStats.level),
        !.unlockedChallenges =
            ArrayFromSet(localStats.unlockedChallenges \o cloudStats.unlockedChallenges),
        !.highScores = Spread(localStats.highScores, cloudStats.highScores),
        !.heatmap = cloudStats.heatmap,
        !.theme = localStats.theme,
        !.streak = Max(localStats.streak, cloudStats.streak) ]

mergedStats(localStats, cloudStats) ==
    [ localStats EXCEPT
        !.xp = Max(localStats.xp, cloudStats.xp),
        !.level = Max(localStats.level, cloudStats.level),
        !.unlockedChallenges =
            ArrayFromSet(localStats.unlockedChallenges \o cloudStats.unlockedChallenges),
        !.highScores = Spread(localStats.highScores, cloudStats.highScores),
        !.heatmap = cloudStats.heatmap,
        !.theme = localStats.theme,
        !.streak = Max(localStats.streak, cloudStats.streak) ]

-----------------------------------------------------------------------------
(* App *)

\* mutant of nextStats: the unlock branch is taken for every result that carries an id
nextStats_UnlocksOnFail(prev, xp, passed, id, c) ==
    LET s1 == [prev EXCEPT !.xp = prev.xp + xp,
                           !.level = ((prev.xp + xp) \div XpPerLevel) + 1]
        s2 == IF ~passed THEN [s1 EXCEPT !.hearts = Max(0, s1.hearts - 1)] ELSE s1
    IN IF id # NoId
       THEN LET s3 == IF xp > ScoreOf(s2.highScores, id)
                      THEN [s2 EXCEPT !.highScores = WithScore(s2.highScores, id, xp)]
                      ELSE s2
            IN IF (id + 1) \in CatalogIds /\ ~Includes(s3.unlockedChallenges, id + 1)
               THEN [s3 EXCEPT !.unlockedChallenges = Append(s3.unlockedChallenges, id + 1)]
               ELSE s3
       ELSE IF passed THEN updateStreak(s2, c) ELSE s2

\* mutant of nextStats: level is raised by one per passed session instead of recomputed
nextStats_LevelIncremented(prev, xp, passed, id, c) ==
    LET s1 == [prev EXCEPT !.xp = prev.xp + xp,
                           !.level = IF passed THEN prev.level + 1 ELSE prev.level]
        s2 == IF ~passed THEN [s1 EXCEPT !.hearts = Max(0, s1.hearts - 1)] ELSE s1
    IN IF id # NoId /\ passed
       THEN LET s3 == IF xp > ScoreOf(s2.highScores, id)
                      THEN [s2 EXCEPT !.highScores = WithScore(s2.highScores, id, xp)]
                      ELSE s2
            IN IF (id + 1) \in CatalogIds /\ ~Includes(s3.unlockedChallenges, id + 1)
               THEN [s3 EXCEPT !.unlockedChallenges = Append(s3.unlockedChallenges, id + 1)]
               ELSE s3
       ELSE IF passed THEN updateStreak(s2, c) ELSE s2

\* mutant of nextStats: the score of a passed session replaces the stored one
nextStats_AlwaysOverwrites(prev, xp, passed, id, c) ==
    LET s1 == [prev EXCEPT !.xp = prev.xp + xp,
                           !.level = ((prev.xp + xp) \div XpPerLevel) + 1]
        s2 == IF ~passed THEN [s1 EXCEPT !.hearts = Max(0, s1.hearts - 1)] ELSE s1
    IN IF id # NoId /\ passed
       THEN LET s3 == [s2 EXCEPT !.highScores = WithScore(s2.highScores, id, xp)]
            IN IF (id + 1) \in CatalogIds /\ ~Includes(s3.unlockedChallenges, id + 1)
               THEN [s3 EXCEPT !.unlockedChallenges = Append(s3.unlockedChallenges, id + 1)]
               ELSE s3
       ELSE IF passed THEN updateStreak(s2, c) ELSE s2

\* mutant of nextStats: a passed session unlocks the next id without storing its score
nextStats_NoHighScore(prev, xp, passed, id, c) ==
    LET s1 == [prev EXCEPT !.xp = prev.xp + xp,
                           !.level = ((prev.xp + xp) \div XpPerLevel) + 1]
        s2 == IF ~passed THEN [s1 EXCEPT !.hearts = Max(0, s1.hearts - 1)] ELSE s1
    IN IF id # NoId /\ passed
       THEN IF (id + 1) \in CatalogIds /\ ~Includes(s2.unlockedChallenges, id + 1)
            THEN [s2 EXCEPT !.unlockedChallenges = Append(s2.unlockedChallenges, id + 1)]
            ELSE s2
       ELSE IF passed THEN updateStreak(s2, c) ELSE s2

\* the updater handleComplete hands to setStats
nextStats(prev, xp, passed, id, c) ==
    LET s1 == [prev EXCEPT !.xp = prev.xp + xp,
                           !.level = ((prev.xp + xp) \div XpPerLevel) + 1]
        s2 == IF ~passed THEN [s1 EXCEPT !.hearts = Max(0, s1.hearts - 1)] ELSE s1
    IN IF id # NoId /\ passed
       THEN LET currentHighScore == ScoreOf(s2.highScores, id)
                s3 == IF xp > currentHighScore
                      THEN [s2 EXCEPT !.highScores = WithScore(s2.highScores, id, xp)]
                      ELSE s2
                nextId == id + 1
                exists == nextId \in CatalogIds
            IN IF exists /\ ~Includes(s3.unlockedChallenges, nextId)
               THEN [s3 EXCEPT !.unlockedChallenges = Append(s3.unlockedChallenges, nextId)]
               ELSE s3
       ELSE IF passed THEN updateStreak(s2, c) ELSE s2

\* mutant of newHeatmap: the new score is not clamped to [0, 1]
newHeatmap_NoClamp(prev, interval, correct) ==
    [prev EXCEPT !.heatmap[interval] =
        prev.heatmap[interval] + (IF correct THEN 1 ELSE -2)]

\* the updater handleUpdateHeatmap hands to setStats; an assignment at an index
\* that is no index of the array changes none of its 12 elements
newHeatmap(prev, interval, correct) ==
    IF interval \in DOMAIN prev.heatmap
    THEN [prev EXCEPT !.heatmap[interval] =
            Min(20, Max(0, prev.heatmap[interval] + (IF correct THEN 1 ELSE -2)))]
    ELSE prev

\* mutant of InsertByScore: the element goes before the elements of equal score
InsertByScore_BeforeEqual(sorted, x) ==
    LET before == {k \in 1..Len(sorted) : sorted[k].score < x.score}
        n == Cardinality(before)
    IN SubSeq(sorted, 1, n) \o <<x>> \o SubSeq(sorted, n + 1, Len(sorted))

\* One step of the stable sort by (a, b) => a.score - b.score: x, which came
\* after the elements of `sorted` in the array, goes behind every element whose
\* score is not larger
InsertByScore(sorted, x) ==
    LET before == {k \in 1..Len(sorted) : sorted[k].score <= x.score}
        n == Cardinality(before)
    IN SubSeq(sorted, 1, n) \o <<x>> \o SubSeq(sorted, n + 1, Len(sorted))

\* withIndex.sort((a, b) => a.score - b.score)
RECURSIVE SortByScore(_)
SortByScore(withIndex) ==
    IF withIndex = <<>> THEN <<>>
    ELSE InsertByScore(SortByScore(SubSeq(withIndex, 1, Len(withIndex) - 1)),
                       withIndex[Len(withIndex)])

getWeakSpots(heatmap) ==
    LET withIndex == [k \in 1..HeatmapSize |-> [score |-> heatmap[k - 1], i |-> k - 1]]
        sorted == SortByScore(withIndex)
        sliced == SubSeq(sorted, 1, Min(WeakSpotCount, Len(sorted)))
    IN [k \in 1..Len(sliced) |-> sliced[k].i]

-----------------------------------------------------------------------------
(* The curriculum *)

CHROMATIC == <<0, 1, 2, 3, 4, 5, 6, 7, 8, 9, 10, 11>>
MAJOR_SCALE == <<0, 2, 4, 5, 7, 9, 11>>
PENTASCALE == <<0, 2, 4, 5, 7>>
NON_DIATONIC == <<0, 1, 3, 6, 8, 10>>
CHORD_TONES == <<0, 3, 4, 7, 10, 11, 2>>

\* DifficultyLevel
Levels == {"Beginner", "Intermediate", "Master"}

\* the places of the challenges of a level in the list cs
OfLevel(cs, level) == {k \in 1..Len(cs) : cs[k].level = level}

\* the object literal of a challenges.push, before its id is drawn from idCounter
Challenge(level, notePool, sequenceLength, octaveRange, isModulating, chaosMode, tasksCount, isExam) ==
    [ id |-> NoId, level |-> level, notePool |-> notePool,
      sequenceLength |-> sequenceLength, octaveRange |-> octaveRange,
      isModulating |-> isModulating, chaosMode |-> chaosMode,
      tasksCount |-> tasksCount, isExam |-> isExam ]

\* the body of the first loop, for its counter i
BeginnerChallenge(i) ==
    LET pool == IF i <= 5 THEN <<0, 7, 1>>
                ELSE IF i <= 10 THEN <<0, 7, 1, 2, 4, 3>>
                ELSE IF i <= 15 THEN <<0, 7, 1, 2, 4, 3, 5, 6>>
                ELSE IF i <= 20 THEN <<0, 7, 1, 2, 4, 3, 5, 6, 8, 9>>
                ELSE IF i <= 25 THEN <<0, 7, 1, 2, 4, 3, 5, 6, 8, 9, 10, 11>>
                ELSE IF i <= 35 THEN MAJOR_SCALE
                ELSE IF i <= 45 THEN NON_DIATONIC
                ELSE CHROMATIC
    IN Challenge("Beginner", pool, 1, 2, FALSE, FALSE, 10, FALSE)

BeginnerExam == Challenge("Beginner", CHROMATIC, 1, 2, TRUE, FALSE, 20, TRUE)

\* the body of the second loop, for its counter j
IntermediateChallenge(j) ==
    LET i == j + 50
    IN IF i <= 60 THEN Challenge("Intermediate", PENTASCALE, 3, 1, FALSE, FALSE, 10, FALSE)
       ELSE IF i <= 70 THEN Challenge("Intermediate", MAJOR_SCALE, 3, 2, FALSE, FALSE, 10, FALSE)
       ELSE IF i <= 80 THEN Challenge("Intermediate", CHROMATIC, 3, 2, FALSE, FALSE, 10, FALSE)
       ELSE IF i <= 90 THEN Challenge("Intermediate", CHROMATIC, 4, 3, FALSE, FALSE, 10, FALSE)
       ELSE Challenge("Intermediate", CHROMATIC, 3, 2, TRUE, FALSE, 10, FALSE)

\* mutant of IntermediateExam: the exam spans one octave
IntermediateExam_OneOctave == Challenge("Intermediate", CHROMATIC, 4, 2, TRUE, FALSE, 20, TRUE)

IntermediateExam == Challenge("Intermediate", CHROMATIC, 4, 3, TRUE, FALSE, 20, TRUE)

\* the body of the third loop, for its counter j
MasterChallenge(j) ==
    LET i == j + 100
    IN IF i <= 115 THEN Challenge("Master", CHORD_TONES, 4, 3, FALSE, FALSE, 10, FALSE)
       ELSE IF i <= 130 THEN Challenge("Master", MAJOR_SCALE, 5, 4, FALSE, FALSE, 10, FALSE)
       ELSE IF i <= 140 THEN Challenge("Master", CHROMATIC, 5, 4, FALSE, FALSE, 10, FALSE)
       ELSE Challenge("Master", CHROMATIC, 5, 4, TRUE, TRUE, 10, FALSE)

MasterExam == Challenge("Master", CHROMATIC, 5, 4, TRUE, TRUE, 20, TRUE)

\* mutant of push: the id is taken from idCounter and idCounter stays
push_SameId(g, c) ==
    [g EXCEPT !.challenges = Append(g.challenges, [c EXCEPT !.id = g.idCounter])]

\* challenges.push({ id: idCounter++, ... })
push(g, c) ==
    [g EXCEPT !.challenges = Append(g.challenges, [c EXCEPT !.id = g.idCounter]),
              !.idCounter = g.idCounter + 1]

\* generateCurriculum is not running; returned holds the lists it has returned
CurriculumIdle(returned) ==
    [pc |-> "idle", i |-> 0, idCounter |-> 0, challenges |-> <<>>, returned |-> returned]

\* generateCurriculum entered: the empty list, idCounter at 1, the first loop at 1
CurriculumCalled(returned) ==
    [pc |-> "beginner", i |-> 1, idCounter |-> 1, challenges |-> <<>>, returned |-> returned]

\* One step of generateCurriculum from the frame g: a pass of a loop, the push
\* of an exam, or the return
CurriculumStep(g) ==
    CASE g.pc = "beginner" ->
            IF g.i <= TierSize
            THEN [push(g, BeginnerChallenge(g.i)) EXCEPT !.i = g.i + 1]
            ELSE [g EXCEPT !.pc = "beginnerExam"]
      [] g.pc = "beginnerExam" ->
            [push(g, BeginnerExam) EXCEPT !.pc = "intermediate", !.i = 1]
      [] g.pc = "intermediate" ->
            IF g.i <= TierSize
            THEN [push(g, IntermediateChallenge(g.i)) EXCEPT !.i = g.i + 1]
            ELSE [g EXCEPT !.pc = "intermediateExam"]
      [] g.pc = "intermediateExam" ->
            [push(g, IntermediateExam) EXCEPT !.pc = "master", !.i = 1]
      [] g.pc = "master" ->
            IF g.i <= TierSize
            THEN [push(g, MasterChallenge(g.i)) EXCEPT !.i = g.i + 1]
            ELSE [g EXCEPT !.pc = "masterExam"]
      [] g.pc = "masterExam" ->
            [push(g, MasterExam) EXCEPT !.pc = "return"]
      [] g.pc = "return" -> CurriculumIdle(Append(g.returned, g.challenges))

\* at most n steps of generateCurriculum from the frame g, up to its return
RECURSIVE RunCurriculum(_, _)
RunCurriculum(g, n) ==
    IF g.pc = "return" \/ n = 0 THEN g
    ELSE IF n = 1 THEN CurriculumStep(g)
    ELSE RunCurriculum(RunCurriculum(g, n \div 2), n - (n \div 2))

\* the list a call returns: every loop makes TierSize passes and leaves
generateCurriculum == RunCurriculum(CurriculumCalled(<<>>), 3 * (TierSize + 2)).challenges

\* const CURRICULUM = generateCurriculum()
CURRICULUM == generateCurriculum

\* No generator is running
NoGeneration == [pc |-> "idle"]

-----------------------------------------------------------------------------
(* The question generators.  The array a generator builds is kept as the     *)
(* number of questions its callback has returned and the question being     *)
(* built, and a melody as the number of its notes and the note pushed last: *)
(* the questions and the notes are drawn independently of one another.      *)

\* the value of an array read past its end, and of a sum with it
NaN == 0 - 1

\* a + b in floating point, on integers and NaN
Plus(a, b) == IF a = NaN \/ b = NaN THEN NaN ELSE a + b

\* Math.floor(Math.random() * n) for an array length n: Math.random() is in [0, 1)
RandomIndex(n) == IF n = 0 THEN {0} ELSE 0..(n - 1)

\* arr[index], for an index counted from 0
At(arr, index) == IF index < Len(arr) THEN arr[index + 1] ELSE NaN

\* arr.filter(n => other.includes(n))
Filter(arr, other) == SelectSeq(arr, LAMBDA n : Includes(other, n))

\* Math.max(...ids) of a non-empty array
MaxOf(ids) == CHOOSE m \in ToSet(ids) : \A x \in ToSet(ids) : x <= m

\* the place in the catalog of the first challenge with an id up to maxId
\* whose notePool holds n
FirstAdding(n, maxId) ==
    CHOOSE k \in 1..Len(CURRICULUM) :
        /\ CURRICULUM[k].id <= maxId /\ Includes(CURRICULUM[k].notePool, n)
        /\ \A j \in 1..(k - 1) :
              ~(CURRICULUM[j].id <= maxId /\ Includes(CURRICULUM[j].notePool, n))

\* the place of n in the array arr
IndexOf(arr, n) == CHOOSE i \in 1..Len(arr) : arr[i] = n /\ \A j \in 1..(i - 1) : arr[j] # n

\* CURRICULUM.filter(c => c.id <= maxId).forEach(c => c.notePool.forEach(n =>
\* unlockedNotes.add(n))); Array.from(unlockedNotes): a Set keeps its elements
\* in the order of their first insertion
UnlockedUpTo(maxId) ==
    LET added == {n \in ToSet(CHROMATIC) :
                    \E k \in 1..Len(CURRICULUM) :
                        CURRICULUM[k].id <= maxId /\ Includes(CURRICULUM[k].notePool, n)}
        Before(m, n) ==
            \/ FirstAdding(m, maxId) < FirstAdding(n, maxId)
            \/ /\ FirstAdding(m, maxId) = FirstAdding(n, maxId)
               /\ IndexOf(CURRICULUM[FirstAdding(n, maxId)].notePool, m)
                    <= IndexOf(CURRICULUM[FirstAdding(n, maxId)].notePool, n)
    IN [i \in 1..Cardinality(added) |->
          CHOOSE n \in added : Cardinality({m \in added : Before(m, n)}) = i]

\* mutant of getUnlockedNotes: the notes of the whole catalog
getUnlockedNotes_All(unlockedIds) == UnlockedUpTo(Len(CURRICULUM))

\* Math.max() of no argument is -Infinity, which no id is below
getUnlockedNotes(unlockedIds) ==
    IF unlockedIds = <<>> THEN <<>> ELSE UnlockedUpTo(MaxOf(unlockedIds))

\* mutant of poolToUseForWeak: no fallback on an empty intersection
poolToUseForWeak_NoFallback(availableWeakSpots, unlockedNotes) == availableWeakSpots

\* availableWeakSpots.length > 0 ? availableWeakSpots : unlockedNotes
poolToUseForWeak(availableWeakSpots, unlockedNotes) ==
    IF Len(availableWeakSpots) > 0 THEN availableWeakSpots ELSE unlockedNotes

\* mutant of PracticeSettings: melodies of four notes at Intermediate
PracticeSettings_FourNotes(difficulty) ==
    IF difficulty = "Master"
    THEN [basePool |-> CHROMATIC, sequenceLength |-> 5, octaveRange |-> 4]
    ELSE IF difficulty = "Intermediate"
    THEN [basePool |-> CHROMATIC, sequenceLength |-> 4, octaveRange |-> 3]
    ELSE [basePool |-> MAJOR_SCALE, sequenceLength |-> 1, octaveRange |-> 2]

\* the switch of generatePracticeQuestions
PracticeSettings(difficulty) ==
    IF difficulty = "Master"
    THEN [basePool |-> CHROMATIC, sequenceLength |-> 5, octaveRange |-> 4]
    ELSE IF difficulty = "Intermediate"
    THEN [basePool |-> CHROMATIC, sequenceLength |-> 3, octaveRange |-> 3]
    ELSE [basePool |-> <<0, 2, 4, 5, 7, 9, 11>>, sequenceLength |-> 1, octaveRange |-> 2]

\* activePool of generatePracticeQuestions
activePool(basePool, weakSpots, forceWeakSpots) ==
    LET intersection == Filter(basePool, weakSpots)
    IN IF forceWeakSpots /\ Len(intersection) > 0 THEN intersection ELSE basePool

\* Math.floor(Math.random() * 12) + 54
RandomKeyCenters == {k + 54 : k \in RandomIndex(12)}

\* the octaves added to a note: Math.floor(Math.random() * (octaveRange * 2))
\* - Math.floor(octaveRange) when octaveRange > 1, and none otherwise
Shifts(octaveRange) ==
    IF octaveRange > 2
    THEN {k - (octaveRange \div 2) : k \in RandomIndex(octaveRange)}
    ELSE {0}

\* The frame of a generator entered: nothing is built yet.  pool is the pool
\* of the unforced draws (unlockedNotes, notePool), weakPool that of the forced
\* ones (poolToUseForWeak, activePool)
Generating(fn, difficulty, challengeId, count, forceWeakSpots, pool, weakPool, sequenceLength, octaveRange, isModulating) ==
    [ pc |-> "callback", fn |-> fn, difficulty |-> difficulty, challengeId |-> challengeId,
      count |-> count, forceWeakSpots |-> forceWeakSpots,
      pool |-> pool, weakPool |-> weakPool,
      sequenceLength |-> sequenceLength, octaveRange |-> octaveRange,
      isModulating |-> isModulating,
      length |-> 0, modulated |-> FALSE, keyCenter |-> 0, i |-> 0, drawnFrom |-> <<>>,
      interval |-> 0, shift |-> 0, note |-> 0 ]

\* generateDojoQuestions up to Array.from
DojoCalled(s, count, forceWeakSpots) ==
    LET unlockedNotes == getUnlockedNotes(s.unlockedChallenges)
        weakSpots == getWeakSpots(s.heatmap)
        availableWeakSpots == Filter(weakSpots, unlockedNotes)
    IN Generating("dojo", "none", NoId, count, forceWeakSpots, unlockedNotes,
                  poolToUseForWeak(availableWeakSpots, unlockedNotes), 1, 2, FALSE)

\* generatePracticeQuestions up to Array.from
PracticeCalled(difficulty, s, count, forceWeakSpots) ==
    LET set == PracticeSettings(difficulty)
    IN Generating("practice", difficulty, NoId, count, forceWeakSpots, set.basePool,
                  activePool(set.basePool, getWeakSpots(s.heatmap), forceWeakSpots),
                  set.sequenceLength, set.octaveRange, FALSE)

\* mutant of ChallengeCalled: ten questions whatever tasksCount is
ChallengeCalled_TenTasks(challenge) ==
    Generating("challenge", challenge.level, challenge.id, 10, FALSE,
               challenge.notePool, challenge.notePool,
               challenge.sequenceLength, challenge.octaveRange, challenge.isModulating)

\* generateChallengeQuestions up to Array.from: challenge.tasksCount || 10
ChallengeCalled(challenge) ==
    Generating("challenge", challenge.level, challenge.id,
               IF challenge.tasksCount = 0 THEN 10 ELSE challenge.tasksCount, FALSE,
               challenge.notePool, challenge.notePool,
               challenge.sequenceLength, challenge.octaveRange, challenge.isModulating)

\* the callback of generateDojoQuestions: useWeak is the outcome of
\* forceWeakSpots || Math.random() < 0.7, index that of the draw from the pool
DojoQuestion(g, useWeak, index) ==
    LET pool == IF useWeak THEN g.weakPool ELSE g.pool
        interval == At(pool, index)
    IN [g EXCEPT !.length = g.length + 1, !.keyCenter = 60, !.i = 1,
                 !.drawnFrom = pool, !.interval = interval, !.shift = 0,
                 !.note = Plus(60, interval)]

\* the key centers a callback of generatePracticeQuestions can draw
PracticeKeyCenters(g) == IF g.difficulty = "Beginner" THEN {60} ELSE RandomKeyCenters

\* the values of challenge.isModulating || Math.random() > 0.8: Math.random is
\* called only when isModulating is false
Modulations(g) ==
    IF g.fn = "practice" THEN {FALSE} ELSE IF g.isModulating THEN {TRUE} ELSE BOOLEAN

\* the key centers a callback of generateChallengeQuestions can draw:
\* (challenge.isModulating || Math.random() > 0.8) ? random : 60
ChallengeKeyCenters(g, modulated) == IF modulated THEN RandomKeyCenters ELSE {60}

\* a callback of generatePracticeQuestions or generateChallengeQuestions up to
\* its loop
QuestionStarted(g, modulated, keyCenter) ==
    [g EXCEPT !.pc = "loop", !.modulated = modulated, !.keyCenter = keyCenter,
              !.i = 0, !.drawnFrom = <<>>,
              !.interval = 0, !.shift = 0, !.note = 0]

\* a pass of the loop over the notes up to the octave displacement: the draw of
\* the interval at index, let note = keyCenter + interval
IntervalDrawn(g, index) ==
    LET pool == IF g.fn = "practice" THEN g.weakPool ELSE g.pool
        interval == At(pool, index)
    IN [g EXCEPT !.pc = "shift", !.drawnFrom = pool, !.interval = interval,
                 !.shift = 0, !.note = Plus(g.keyCenter, interval)]

\* the rest of the pass: note += shift * 12 when octaveRange > 1, melody.push(note)
NotePushed(g, shift) ==
    [g EXCEPT !.pc = "loop", !.i = g.i + 1, !.shift = shift,
              !.note = Plus(g.note, shift * 12)]

\* the callback returns its question, and with it its locals are gone
QuestionReturned(g) ==
    [g EXCEPT !.pc = "callback", !.length = g.length + 1, !.modulated = FALSE,
              !.keyCenter = 0, !.i = 0,
              !.drawnFrom = <<>>, !.interval = 0, !.shift = 0, !.note = 0]

\* A stored text that is no JSON object: the empty text, a text cut short and
\* the text null
Text(t) == Doc([text |-> t])

\* !saved: getItem returned null or the empty text
Falsy(saved) == saved = NoDoc \/ saved = Text("")

\* JSON.parse(saved): the stored object, null for the text null (nothing to
\* spread), and a SyntaxError for any other text
JSONparse(saved) ==
    IF "text" \in DOMAIN saved[1]
    THEN IF saved[1].text = "null" THEN [threw |-> FALSE, value |-> <<>>]
         ELSE [threw |-> TRUE, value |-> <<>>]
    ELSE [threw |-> FALSE, value |-> saved[1]]

\* a call of the StorageService that returned ret, and one that raised
Returned(op, ret) == [op |-> op, raised |-> FALSE, ret |-> ret]
Raised(op) == [op |-> op, raised |-> TRUE, ret |-> NoDoc]

\* No call of load, save or reset has been made
NoCall == Returned("none", NoDoc)

\* mutant of load: the SyntaxError of JSON.parse is not caught
load_NoCatch(saved) ==
    IF Falsy(saved) THEN Returned("load", Doc(INITIAL_STATS))
    ELSE IF JSONparse(saved).threw THEN Raised("load")
    ELSE Returned("load", Doc(Spread(INITIAL_STATS, JSONparse(saved).value)))

\* StorageService.load() on the stored text saved
load(saved) ==
    IF Falsy(saved) THEN Returned("load", Doc(INITIAL_STATS))
    ELSE IF JSONparse(saved).threw THEN Returned("load", Doc(INITIAL_STATS))
    ELSE Returned("load", Doc(Spread(INITIAL_STATS, JSONparse(saved).value)))

NoCalls ==
    /\ catalog = CurriculumIdle(<<>>)
    /\ gen = NoGeneration
    /\ storage = NoCall

-----------------------------------------------------------------------------
(* Inputs *)

\* Results a summary can hand over: passed is xpGained >= 0.8 * maxPotentialXP,
\* and a batch of ten one-note questions has maxPotentialXP = 100.
SessionResults ==
    { [xp |-> 20, passed |-> FALSE],
      [xp |-> 100, passed |-> TRUE] }

\* Profiles another installation of the program left in the remote store.
RemoteProfiles ==
    { [ streak |-> 2, xp |-> 490, hearts |-> 3, level |-> 1,
        heatmap |-> [i \in 0..(HeatmapSize - 1) |-> IF i = 0 THEN 12 ELSE 10],
        unlockedChallenges |-> <<1, 2>>,
        highScores |-> (1 :> 80),
        lastPlayedDate |-> FirstDay - 1,
        theme |-> "light" ],
      [ streak |-> 0, xp |-> 200, hearts |-> 5, level |-> 1,
        heatmap |-> [i \in 0..(HeatmapSize - 1) |-> 10],
        unlockedChallenges |-> <<1, 2, 3>>,
        highScores |-> (1 :> 100) @@ (2 :> 110),
        lastPlayedDate |-> NoDate,
        theme |-> "dark" ] }

\* Profiles an earlier run of the program left in the local store.
StoredProfiles ==
    { INITIAL_STATS,
      [ streak |-> 0, xp |-> 100, hearts |-> 5, level |-> 1,
        heatmap |-> [i \in 0..(HeatmapSize - 1) |-> 10],
        unlockedChallenges |-> <<1, 2>>,
        highScores |-> (1 :> 100),
        lastPlayedDate |-> NoDate,
        theme |-> "dark" ],
      [ streak |-> 1, xp |-> 520, hearts |-> 4, level |-> 2,
        heatmap |-> [i \in 0..(HeatmapSize - 1) |-> IF i = 0 THEN 8 ELSE 10],
        unlockedChallenges |-> <<1, 2, 3>>,
        highScores |-> (1 :> 60) @@ (2 :> 120),
        lastPlayedDate |-> FirstDay,
        theme |-> "light" ] }

\* a question: the key center and the target melody, as MIDI numbers
Question(keyCenter, targetMelody) == [keyCenter |-> keyCenter, targetMelody |-> targetMelody]

\* the keys the Piano renders: C2 to C6
KEYBOARD_RANGE == [start |-> 36, end |-> 84]

\* The keys of the Piano the learner presses in the model
Keys == {60, 64}

\* Batches the generators can return (cut to two questions over Keys)
Batches ==
    { <<Question(60, <<64>>), Question(60, <<60, 64>>)>> }

\* A batch of one-note questions as generateDojoQuestions and a challenge of
\* sequenceLength 1 return them (cut to five questions over Keys)
OneNoteBatches ==
    { <<Question(60, <<64>>), Question(60, <<60>>), Question(60, <<64>>),
        Question(60, <<64>>), Question(60, <<60>>)>> }

\* The routes that mount a GameSession: Dojo, Practice, a challenge, an exam
SessionModes ==
    { [mode |-> "dojo", challengeId |-> NoId],
      [mode |-> "practice", challengeId |-> NoId],
      [mode |-> "challenge", challengeId |-> 1],
      [mode |-> "exam", challengeId |-> CatalogSize - 1] }

\* The component state of GameSession once the initialization effect and the
\* question effect of the first question have run; activation counts the runs
\* of the question effect, checks the calls of handleCheckSequence since the
\* last run, ended tells that onComplete was called, and result holds the
\* arguments of that call.
MountedSession(m, qs) ==
    [ mode |-> m.mode, challengeId |-> m.challengeId,
      questions |-> qs, currentQuestionIndex |-> 0, xpGained |-> 0,
      userInput |-> <<>>, feedback |-> "null",
      isAnswering |-> FALSE, showOverlay |-> FALSE,
      mistakes |-> 0, showSummary |-> FALSE,
      hasAttempted |-> FALSE, canAdvance |-> FALSE, attempts |-> 0,
      isAnswerRevealed |-> FALSE,
      activation |-> 1, checks |-> 0, ended |-> FALSE, result |-> <<>> ]

\* No GameSession is mounted
NoSession == [MountedSession([mode |-> "none", challengeId |-> NoId], <<>>)
                EXCEPT !.activation = 0, !.ended = TRUE]

SessionUnmounted ==
    /\ ses = NoSession
    /\ feedbackSequenceId = 0
    /\ feedbacks = {}
    /\ plays = {}

IdleSync == [pc |-> "idle", n |-> 0, localStats |-> NoDoc, cloudStats |-> NoDoc,
             written |-> NoDoc, ret |-> NoDoc, failed |-> FALSE,
             object |-> "none", stored |-> NoDoc, remote |-> NoDoc, again |-> FALSE]

\* The ids a session can be started for: ChallengeList enables the unlocked
\* ones, ExamSelector offers every exam; Dojo and Practice carry no id.
Startable(s) == {NoId} \cup {id \in CatalogIds : Includes(s.unlockedChallenges, id) \/ id \in ExamIds}

-----------------------------------------------------------------------------
(* The effect on [stats, user]: save locally, and remotely when logged in *)

\* The objects the program tells apart by Object.is: the constant INITIAL_STATS,
\* which load and reset return as it is, the object load builds from a stored
\* text, and the objects built afterwards (no two of them are the same)
MountObjects(s) == IF s = INITIAL_STATS THEN {"INITIAL_STATS", "loaded"} ELSE {"loaded"}

\* App mounted on the object load returned: the auth effect captured it
Mounted(object) == [stats |-> object, mountStats |-> object]

\* a setter handed setStats an object it has just built
NewObject == [objects EXCEPT !.stats = "new"]

SaveEffect(newStats, newUser) ==
    /\ localStore' = Doc(newStats)
    /\ cloudPending' = IF newUser # NoUser THEN Doc(newStats) ELSE cloudPending

ProfileInit ==
    /\ stats = INITIAL_STATS
    /\ mountStats = INITIAL_STATS
    /\ objects = Mounted("INITIAL_STATS")
    /\ user = NoUser
    /\ localStore = Doc(INITIAL_STATS)
    /\ cloud \in {NoDoc} \cup {Doc(p) : p \in RemoteProfiles}
    /\ cloudPending = NoDoc
    /\ sync = IdleSync
    /\ clock = StartClock(UtcZone)
    /\ heatUpdates = 0
    /\ sessions = 0
    /\ SessionUnmounted
    /\ NoCalls

handleComplete(r, id) ==
    /\ id \in Startable(stats)
    /\ sessions < MaxSessions
    /\ sessions' = sessions + 1
    /\ stats' = nextStats(stats, r.xp, r.passed, id, clock)
    /\ objects' = NewObject
    /\ SaveEffect(stats', user)
    /\ UNCHANGED <<mountStats, user, cloud, sync, clock, heatUpdates>>
    /\ UNCHANGED sessionVars
    /\ UNCHANGED callVars

handleUpdateHeatmap(interval, correct) ==
    /\ heatUpdates < MaxHeatUpdates
    /\ heatUpdates' = heatUpdates + 1
    /\ stats' = newHeatmap(stats, interval, correct)
    /\ objects' = NewObject
    /\ SaveEffect(stats', user)
    /\ UNCHANGED <<mountStats, user, cloud, sync, clock, sessions>>
    /\ UNCHANGED sessionVars
    /\ UNCHANGED callVars

handleToggleTheme ==
    /\ stats' = [stats EXCEPT !.theme = IF stats.theme = "dark" THEN "light" ELSE "dark"]
    /\ objects' = NewObject
    /\ SaveEffect(stats', user)
    /\ UNCHANGED <<mountStats, user, cloud, sync, clock, heatUpdates, sessions>>
    /\ UNCHANGED sessionVars
    /\ UNCHANGED callVars

\* StorageService.reset() removes the stored text and returns INITIAL_STATS;
\* setStats(fresh) changes the state, and so runs the save effect, unless stats
\* holds that object already
handleReset ==
    /\ IF objects.stats = "INITIAL_STATS"
       THEN /\ localStore' = NoDoc
            /\ UNCHANGED <<stats, objects, cloudPending>>
       ELSE /\ stats' = INITIAL_STATS
            /\ objects' = [objects EXCEPT !.stats = "INITIAL_STATS"]
            /\ SaveEffect(stats', user)
    /\ UNCHANGED <<mountStats, user, cloud, sync, clock, heatUpdates, sessions>>
    /\ UNCHANGED sessionVars
    /\ UNCHANGED callVars

\* onAuthStateChanged delivers a user: setUser, then syncWithCloud(uid, stats) with
\* the stats of the effect's closure, up to its await of getDoc; object is the
\* object passed as localStats
authSignedIn ==
    /\ user = NoUser
    /\ sync.pc \in {"idle", "done"}
    /\ sync.n < MaxSyncs
    /\ user' = Uid
    /\ sync' = [IdleSync EXCEPT !.pc = "getDoc", !.n = sync.n + 1,
                                !.localStats = Doc(mountStats),
                                !.object = objects.mountStats]
    /\ SaveEffect(stats, user')
    /\ UNCHANGED <<stats, mountStats, objects, cloud, clock, heatUpdates, sessions>>
    /\ UNCHANGED sessionVars
    /\ UNCHANGED callVars

\* onAuthStateChanged delivers null: setUser only
authSignedOut ==
    /\ user = Uid
    /\ user' = NoUser
    /\ SaveEffect(stats, user')
    /\ UNCHANGED <<stats, mountStats, objects, cloud, sync, clock, heatUpdates, sessions>>
    /\ UNCHANGED sessionVars
    /\ UNCHANGED callVars

\* the continuation of the auth callback once syncWithCloud returned the
\* profile syncedStats in object: setStats(syncedStats), which changes the
\* state, and so runs the save effect, unless stats holds that object already
Installed(syncedStats, object) ==
    IF object # "new" /\ object = objects.stats
    THEN UNCHANGED <<stats, objects, localStore, cloudPending>>
    ELSE /\ stats' = syncedStats
         /\ objects' = [objects EXCEPT !.stats = object]
         /\ SaveEffect(syncedStats, user)

\* the object syncWithCloud returns when it wrote: mergedStats, built by the
\* call, or localStats when the remote store held nothing
WrittenObject == IF sync.cloudStats # NoDoc THEN "new" ELSE sync.object

\* getDoc resolves; the merged profile is saved locally and its setDoc is issued.
\* A saveToCloud write issued before this setDoc is acknowledged or lost first.
getDocResolves ==
    /\ sync.pc = "getDoc"
    /\ LET localStats == sync.localStats[1]
       IN IF cloud # NoDoc
          THEN /\ sync' = [sync EXCEPT !.pc = "setDoc", !.cloudStats = cloud,
                                       !.written = Doc(mergedStats(localStats, cloud[1]))]
               /\ localStore' = sync'.written
          ELSE /\ sync' = [sync EXCEPT !.pc = "setDoc", !.written = Doc(localStats)]
               /\ localStore' = localStore
    /\ cloudPending' = NoDoc
    /\ cloud' \in {cloud} \cup (IF cloudPending # NoDoc THEN {cloudPending} ELSE {})
    /\ UNCHANGED <<stats, mountStats, objects, user, clock, heatUpdates, sessions>>
    /\ UNCHANGED sessionVars
    /\ UNCHANGED callVars

\* getDoc rejects: the catch returns localStats
getDocFails ==
    /\ sync.pc = "getDoc"
    /\ sync' = [sync EXCEPT !.pc = "done", !.ret = sync.localStats, !.failed = TRUE]
    /\ Installed(sync.localStats[1], sync.object)
    /\ UNCHANGED <<mountStats, user, cloud, clock, heatUpdates, sessions>>
    /\ UNCHANGED sessionVars
    /\ UNCHANGED callVars

\* setDoc resolves: syncWithCloud returns what it wrote
setDocResolves ==
    /\ sync.pc = "setDoc"
    /\ cloud' = sync.written
    /\ sync' = [sync EXCEPT !.pc = "done", !.ret = sync.written]
    /\ Installed(sync.written[1], WrittenObject)
    /\ UNCHANGED <<mountStats, user, clock, heatUpdates, sessions>>
    /\ UNCHANGED sessionVars
    /\ UNCHANGED callVars

\* mutant of setDocFails: the catch returns the merged profile it had computed
setDocFails_ReturnsMerged ==
    /\ sync.pc = "setDoc"
    /\ sync' = [sync EXCEPT !.pc = "done", !.ret = sync.written, !.failed = TRUE]
    /\ Installed(sync.written[1], WrittenObject)
    /\ UNCHANGED <<mountStats, user, cloud, clock, heatUpdates, sessions>>
    /\ UNCHANGED sessionVars
    /\ UNCHANGED callVars

\* setDoc rejects: the catch returns localStats
setDocFails ==
    /\ sync.pc = "setDoc"
    /\ sync' = [sync EXCEPT !.pc = "done", !.ret = sync.localStats, !.failed = TRUE]
    /\ Installed(sync.localStats[1], sync.object)
    /\ UNCHANGED <<mountStats, user, cloud, clock, heatUpdates, sessions>>
    /\ UNCHANGED sessionVars
    /\ UNCHANGED callVars

\* a saveToCloud write is acknowledged (after the setDoc of a sync issued before it)
saveToCloudResolves ==
    /\ cloudPending # NoDoc
    /\ sync.pc # "setDoc"
    /\ cloud' = cloudPending
    /\ cloudPending' = NoDoc
    /\ UNCHANGED <<stats, mountStats, objects, user, localStore, sync, clock, heatUpdates, sessions>>
    /\ UNCHANGED sessionVars
    /\ UNCHANGED callVars

\* a saveToCloud write rejects: the error is logged and dropped
saveToCloudFails ==
    /\ cloudPending # NoDoc
    /\ cloudPending' = NoDoc
    /\ UNCHANGED <<stats, mountStats, objects, user, localStore, cloud, sync, clock, heatUpdates, sessions>>
    /\ UNCHANGED sessionVars
    /\ UNCHANGED callVars

ProfileNext ==
    \/ \E r \in SessionResults, id \in 0..CatalogSize : handleComplete(r, id)
    \/ \E interval \in 0..MaxInterval, correct \in BOOLEAN : handleUpdateHeatmap(interval, correct)
    \/ handleToggleTheme
    \/ handleReset
    \/ authSignedIn
    \/ authSignedOut
    \/ getDocResolves
    \/ getDocFails
    \/ setDocResolves
    \/ setDocFails
    \/ saveToCloudResolves
    \/ saveToCloudFails

Spec == ProfileInit /\ [][ProfileNext]_vars

-----------------------------------------------------------------------------
(* syncWithCloud alone: the app starts on a stored profile, the user signs   *)
(* in, and the sync runs against the remote store with no session played.   *)

SyncInit ==
    /\ stats \in StoredProfiles
    /\ mountStats = stats
    /\ objects \in {Mounted(o) : o \in MountObjects(stats)}
    /\ user = NoUser
    /\ localStore = Doc(stats)
    /\ cloud \in {NoDoc} \cup {Doc(p) : p \in RemoteProfiles}
    /\ cloudPending = NoDoc
    /\ sync = IdleSync
    /\ clock = StartClock(UtcZone)
    /\ heatUpdates = 0
    /\ sessions = 0
    /\ SessionUnmounted
    /\ NoCalls

SyncNext ==
    \/ authSignedIn
    \/ authSignedOut
    \/ getDocResolves
    \/ getDocFails
    \/ setDocResolves
    \/ setDocFails
    \/ saveToCloudResolves
    \/ saveToCloudFails

SpecSync == SyncInit /\ [][SyncNext]_vars

-----------------------------------------------------------------------------
(* The sync called again: syncWithCloud(uid, returned) with the profile the *)
(* finished call returned, which stats holds, while the remote store holds   *)
(* what that call wrote. The object held is named "returned" when the call   *)
(* built it; stored and remote keep what the two stores held when this call  *)
(* was made.                                                                 *)

syncAgain ==
    /\ user = Uid
    /\ sync.pc = "done" /\ ~sync.failed /\ ~sync.again
    /\ stats = sync.ret[1]
    /\ cloud = sync.written
    /\ objects' = IF objects.stats = "new"
                  THEN [objects EXCEPT !.stats = "returned"] ELSE objects
    /\ sync' = [IdleSync EXCEPT !.pc = "getDoc", !.n = sync.n,
                                !.localStats = sync.ret,
                                !.object = objects'.stats,
                                !.stored = localStore, !.remote = cloud,
                                !.again = TRUE]
    /\ UNCHANGED <<stats, mountStats, user, localStore, cloud, cloudPending>>
    /\ UNCHANGED <<clock, heatUpdates, sessions>>
    /\ UNCHANGED sessionVars
    /\ UNCHANGED callVars

ResyncNext ==
    \/ authSignedIn
    \/ authSignedOut
    \/ getDocResolves
    \/ getDocFails
    \/ setDocResolves
    \/ setDocFails
    \/ saveToCloudResolves
    \/ saveToCloudFails
    \/ syncAgain

SpecResync == SyncInit /\ [][ResyncNext]_vars

-----------------------------------------------------------------------------
(* The calendar: the app starts signed out on a stored profile, in some time *)
(* zone; sessions are completed while the hours pass.                       *)

StreakInit ==
    /\ stats \in StoredProfiles
    /\ mountStats = stats
    /\ objects \in {Mounted(o) : o \in MountObjects(stats)}
    /\ user = NoUser
    /\ localStore = Doc(stats)
    /\ cloud = NoDoc
    /\ cloudPending = NoDoc
    /\ sync = IdleSync
    /\ \E zone \in Zones : clock = StartClock(zone)
    /\ heatUpdates = 0
    /\ sessions = 0
    /\ SessionUnmounted
    /\ NoCalls

\* an hour passes
timePasses ==
    /\ clock.now + 1 < (FirstDay + MaxDays) * HoursPerDay
    /\ clock' = [clock EXCEPT !.now = clock.now + 1]
    /\ UNCHANGED <<stats, mountStats, objects, user, localStore, cloud, cloudPending, sync,
                   heatUpdates, sessions>>
    /\ UNCHANGED sessionVars
    /\ UNCHANGED callVars

StreakNext ==
    \/ \E r \in SessionResults, id \in 0..CatalogSize : handleComplete(r, id)
    \/ timePasses

SpecStreak == StreakInit /\ [][StreakNext]_vars

-----------------------------------------------------------------------------
(* The heatmap alone: the app starts on a stored heatmap and applies updates *)

\* Heatmaps of 12 scores in [0, 1], in twentieths: one slot takes every score,
\* the others are all at the lowest, the initial or the highest score
HeatmapInputs ==
    { [i \in 0..(HeatmapSize - 1) |-> IF i = j THEN v ELSE w] :
        j \in 0..(HeatmapSize - 1), v \in 0..20, w \in {0, 10, 20} }
    \cup
    \* and heatmaps whose scores rise, fall or repeat along the indices
    { [i \in 0..(HeatmapSize - 1) |-> (a * i + b) % 21] : a \in 0..20, b \in 0..20 }

HeatmapInit ==
    /\ \E h \in HeatmapInputs : stats = [INITIAL_STATS EXCEPT !.heatmap = h]
    /\ mountStats = stats
    /\ objects \in {Mounted(o) : o \in MountObjects(stats)}
    /\ user = NoUser
    /\ localStore = Doc(stats)
    /\ cloud = NoDoc
    /\ cloudPending = NoDoc
    /\ sync = IdleSync
    /\ clock = StartClock(UtcZone)
    /\ heatUpdates = 0
    /\ sessions = 0
    /\ SessionUnmounted
    /\ NoCalls

HeatmapNext ==
    \E interval \in 0..(HeatmapSize - 1), correct \in BOOLEAN :
        handleUpdateHeatmap(interval, correct)

SpecHeatmap == HeatmapInit /\ [][HeatmapNext]_vars

-----------------------------------------------------------------------------
(* The curriculum generator alone, called MaxCalls times *)

CurriculumInit ==
    /\ stats = INITIAL_STATS
    /\ mountStats = INITIAL_STATS
    /\ objects = Mounted("INITIAL_STATS")
    /\ user = NoUser
    /\ localStore = Doc(INITIAL_STATS)
    /\ cloud = NoDoc
    /\ cloudPending = NoDoc
    /\ sync = IdleSync
    /\ clock = StartClock(UtcZone)
    /\ heatUpdates = 0
    /\ sessions = 0
    /\ SessionUnmounted
    /\ NoCalls

\* generateCurriculum()
callGenerateCurriculum ==
    /\ catalog.pc = "idle"
    /\ Len(catalog.returned) < MaxCalls
    /\ catalog' = CurriculumCalled(catalog.returned)
    /\ UNCHANGED <<profileVars, sessionVars, gen, storage>>

\* generateCurriculum moves on from the place pc
curriculumStep(pc) ==
    /\ catalog.pc = pc
    /\ catalog' = CurriculumStep(catalog)
    /\ UNCHANGED <<profileVars, sessionVars, gen, storage>>

CurriculumNext ==
    \/ callGenerateCurriculum
    \/ curriculumStep("beginner")
    \/ curriculumStep("beginnerExam")
    \/ curriculumStep("intermediate")
    \/ curriculumStep("intermediateExam")
    \/ curriculumStep("master")
    \/ curriculumStep("masterExam")
    \/ curriculumStep("return")

SpecCurriculum == CurriculumInit /\ [][CurriculumNext]_vars

-----------------------------------------------------------------------------
(* The question generators alone: the app holds some profile and one of the *)
(* generators is called, as the initialization effect of GameSession does.  *)

\* [1, 2, ..., m]
UpTo(m) == [k \in 1..m |-> k]

\* the heatmap whose scores are 0 at the indices of low and 0.5 elsewhere
LowAt(low) == [i \in 0..(HeatmapSize - 1) |-> IF i \in low THEN 0 ELSE 10]

\* Profiles the app can hold: the unlocked ids grow by the successor of a
\* passed challenge, and an exam can be passed at any time
GeneratorProfiles ==
    { [INITIAL_STATS EXCEPT !.unlockedChallenges = p[1], !.heatmap = p[2]] :
        p \in { <<UpTo(1), LowAt({})>>,
                <<UpTo(1), LowAt({2, 3, 4, 5})>>,
                <<UpTo(6), LowAt({1, 3, 6, 8})>>,
                <<UpTo(21), LowAt({8, 9, 10, 11})>>,
                <<<<1, 52, 2>>, LowAt({5, 11})>> } }

\* the counts handed to the Dojo and Practice generators
Counts == 0..MaxCount

GenerateInit ==
    /\ stats \in GeneratorProfiles
    /\ mountStats = stats
    /\ objects = Mounted("loaded")
    /\ user = NoUser
    /\ localStore = Doc(stats)
    /\ cloud = NoDoc
    /\ cloudPending = NoDoc
    /\ sync = IdleSync
    /\ clock = StartClock(UtcZone)
    /\ heatUpdates = 0
    /\ sessions = 0
    /\ SessionUnmounted
    /\ NoCalls

\* generateDojoQuestions(stats, count, forceWeakSpots)
callDojo(count, forceWeakSpots) ==
    /\ gen.pc = "idle"
    /\ gen' = DojoCalled(stats, count, forceWeakSpots)
    /\ UNCHANGED <<profileVars, sessionVars, catalog, storage>>

\* generatePracticeQuestions(difficulty, stats, count, forceWeakSpots)
callPractice(difficulty, count, forceWeakSpots) ==
    /\ gen.pc = "idle"
    /\ gen' = PracticeCalled(difficulty, stats, count, forceWeakSpots)
    /\ UNCHANGED <<profileVars, sessionVars, catalog, storage>>

\* generateChallengeQuestions(challenge), for an unlocked challenge or an exam
callChallenge(challenge) ==
    /\ gen.pc = "idle"
    /\ Includes(stats.unlockedChallenges, challenge.id) \/ challenge.isExam
    /\ gen' = ChallengeCalled(challenge)
    /\ UNCHANGED <<profileVars, sessionVars, catalog, storage>>

\* Array.from calls the callback of generateDojoQuestions
dojoCallback ==
    /\ gen.pc = "callback" /\ gen.fn = "dojo"
    /\ gen.length < gen.count
    /\ \E useWeak \in (IF gen.forceWeakSpots THEN {TRUE} ELSE BOOLEAN) :
          \E index \in RandomIndex(Len(IF useWeak THEN gen.weakPool ELSE gen.pool)) :
              gen' = DojoQuestion(gen, useWeak, index)
    /\ UNCHANGED <<profileVars, sessionVars, catalog, storage>>

\* Array.from calls the callback of the Practice or the challenge generator
startQuestion ==
    /\ gen.pc = "callback" /\ gen.fn # "dojo"
    /\ gen.length < gen.count
    /\ \E modulated \in Modulations(gen) :
          \E keyCenter \in (IF gen.fn = "practice" THEN PracticeKeyCenters(gen)
                            ELSE ChallengeKeyCenters(gen, modulated)) :
             gen' = QuestionStarted(gen, modulated, keyCenter)
    /\ UNCHANGED <<profileVars, sessionVars, catalog, storage>>

\* a pass of the loop over the notes begins: the interval is drawn
drawInterval ==
    /\ gen.pc = "loop"
    /\ gen.i < gen.sequenceLength
    /\ \E index \in RandomIndex(Len(IF gen.fn = "practice" THEN gen.weakPool ELSE gen.pool)) :
          gen' = IntervalDrawn(gen, index)
    /\ UNCHANGED <<profileVars, sessionVars, catalog, storage>>

\* the pass ends: the note is displaced and pushed
pushNote ==
    /\ gen.pc = "shift"
    /\ \E shift \in Shifts(gen.octaveRange) : gen' = NotePushed(gen, shift)
    /\ UNCHANGED <<profileVars, sessionVars, catalog, storage>>

\* the loop ends and the callback returns
returnQuestion ==
    /\ gen.pc = "loop"
    /\ ~(gen.i < gen.sequenceLength)
    /\ gen' = QuestionReturned(gen)
    /\ UNCHANGED <<profileVars, sessionVars, catalog, storage>>

\* Array.from has called the callback count times: the generator returns
returnQuestions ==
    /\ gen.pc = "callback"
    /\ ~(gen.length < gen.count)
    /\ gen' = [gen EXCEPT !.pc = "returned"]
    /\ UNCHANGED <<profileVars, sessionVars, catalog, storage>>

GenerateNext ==
    \/ \E count \in Counts, forceWeakSpots \in BOOLEAN : callDojo(count, forceWeakSpots)
    \/ \E difficulty \in Levels, count \in Counts, forceWeakSpots \in BOOLEAN :
          callPractice(difficulty, count, forceWeakSpots)
    \/ \E k \in 1..Len(CURRICULUM) : callChallenge(CURRICULUM[k])
    \/ dojoCallback
    \/ startQuestion
    \/ drawInterval
    \/ pushNote
    \/ returnQuestion
    \/ returnQuestions

SpecGenerate == GenerateInit /\ [][GenerateNext]_vars

-----------------------------------------------------------------------------
(* The local store alone: some text is stored under STORAGE_KEY, and the     *)
(* StorageService is called.                                                 *)

\* the objects that hold some of the fields of a stored profile
PartialProfiles ==
    { [f \in fields |-> p[f]] : fields \in SUBSET (DOMAIN INITIAL_STATS), p \in StoredProfiles }

StoredTexts ==
    {NoDoc, Text(""), Text("{"), Text("null")} \cup {Doc(p) : p \in PartialProfiles}

StorageInit ==
    /\ stats = INITIAL_STATS
    /\ mountStats = INITIAL_STATS
    /\ objects = Mounted("INITIAL_STATS")
    /\ user = NoUser
    /\ localStore \in StoredTexts
    /\ cloud = NoDoc
    /\ cloudPending = NoDoc
    /\ sync = IdleSync
    /\ clock = StartClock(UtcZone)
    /\ heatUpdates = 0
    /\ sessions = 0
    /\ SessionUnmounted
    /\ NoCalls

\* StorageService.load()
callLoad ==
    /\ storage' = load(localStore)
    /\ UNCHANGED <<profileVars, sessionVars, catalog, gen>>

\* StorageService.save(profile)
callSave(profile) ==
    /\ localStore' = Doc(profile)
    /\ storage' = Returned("save", NoDoc)
    /\ UNCHANGED <<stats, mountStats, objects, user, cloud, cloudPending, sync, clock, heatUpdates,
                   sessions>>
    /\ UNCHANGED <<sessionVars, catalog, gen>>

\* StorageService.reset()
callReset ==
    /\ localStore' = NoDoc
    /\ storage' = Returned("reset", Doc(INITIAL_STATS))
    /\ UNCHANGED <<stats, mountStats, objects, user, cloud, cloudPending, sync, clock, heatUpdates,
                   sessions>>
    /\ UNCHANGED <<sessionVars, catalog, gen>>

StorageNext ==
    \/ callLoad
    \/ \E profile \in StoredProfiles : callSave(profile)
    \/ callReset

SpecStorage == StorageInit /\ [][StorageNext]_vars

-----------------------------------------------------------------------------
(* GameSession *)

isExam == ses.mode = "exam"
isPracticeMode == ses.mode = "practice"
currentQ == ses.questions[ses.currentQuestionIndex + 1]

\* a % n of JavaScript, for n > 0: the remainder has the sign of a
Remainder(a, n) == IF a >= 0 THEN a % n ELSE 0 - ((0 - a) % n)

\* (note - q.keyCenter + 12) % 12
IntervalOf(note, q) == Remainder(note - q.keyCenter + 12, 12)

\* mutant of AllNotes: only the first target note is updated
AllNotes_FirstNote(q, correct) == <<<<IntervalOf(q.targetMelody[1], q), correct>>>>

\* onUpdateHeatmap(interval, true) or (interval, false) for every target note
AllNotes(q, correct) ==
    [i \in 1..Len(q.targetMelody) |-> <<IntervalOf(q.targetMelody[i], q), correct>>]

\* mutant of Mismatches: every position of the input counts as a mismatch
Mismatches_EveryPosition(q, input) ==
    [i \in 1..Len(input) |-> <<IntervalOf(q.targetMelody[i], q), FALSE>>]

\* onUpdateHeatmap(interval, false) for the target note of every position
\* where the input differs
RECURSIVE Mismatches(_, _)
Mismatches(q, input) ==
    IF input = <<>> THEN <<>>
    ELSE LET i == Len(input)
             init == Mismatches(q, SubSeq(input, 1, i - 1))
         IN IF input[i] # q.targetMelody[i]
            THEN Append(init, <<IntervalOf(q.targetMelody[i], q), FALSE>>)
            ELSE init

RECURSIVE ApplyHeatmap(_, _)
ApplyHeatmap(prev, updates) ==
    IF updates = <<>> THEN prev
    ELSE ApplyHeatmap(newHeatmap(prev, updates[1][1], updates[1][2]), Tail(updates))

\* the onUpdateHeatmap calls of one handler, and the save effect they trigger
UpdatesHeatmap(updates) ==
    IF updates = <<>>
    THEN UNCHANGED <<stats, objects, localStore, cloudPending>>
    ELSE /\ stats' = ApplyHeatmap(stats, updates)
         /\ objects' = NewObject
         /\ SaveEffect(stats', user)

\* the overlay of a wrong answer is rendered
OverlayShown == ses.showOverlay /\ ~isExam /\ ~ses.showSummary /\ ~ses.ended

\* the session screen (not the summary) is rendered
ScreenShown == ~ses.showSummary /\ ~ses.ended

\* The overlay is laid over the bottom of the screen (absolute, bottom-0, z-50):
\* it covers the Piano and the row of action buttons, not the header.
Covered == OverlayShown

\* the action row (rendered when isAnswering) shows CHECK or SUBMIT
CheckButton == ScreenShown /\ ses.isAnswering /\ ~ses.canAdvance

\* the action row (rendered when isAnswering) shows the answer buttons, and the
\* pointer reaches them
AnswerButtons == ScreenShown /\ ~Covered /\ ses.isAnswering /\ ~ses.canAdvance

\* mutant of AfterNext: a Practice session ends with its batch like the others
AfterNext_PracticeEnds(s, qs) ==
    LET c == [s EXCEPT !.userInput = <<>>, !.feedback = "null", !.isAnswering = FALSE,
                       !.canAdvance = FALSE, !.hasAttempted = FALSE]
    IN IF s.currentQuestionIndex < Len(s.questions) - 1
       THEN [c EXCEPT !.currentQuestionIndex = s.currentQuestionIndex + 1]
       ELSE [c EXCEPT !.showSummary = TRUE]

\* mutant of AfterNext: the index stays where it is
AfterNext_SameQuestion(s, qs) ==
    [s EXCEPT !.userInput = <<>>, !.feedback = "null", !.isAnswering = FALSE,
              !.canAdvance = FALSE, !.hasAttempted = FALSE, !.questions = qs]

\* the setters of handleNext, before any effect runs
AfterNext(s, qs) ==
    LET c == [s EXCEPT !.userInput = <<>>, !.feedback = "null", !.isAnswering = FALSE,
                       !.canAdvance = FALSE, !.hasAttempted = FALSE]
    IN IF s.currentQuestionIndex < Len(s.questions) - 1
       THEN [c EXCEPT !.currentQuestionIndex = s.currentQuestionIndex + 1]
       ELSE IF s.mode = "practice"
            THEN [c EXCEPT !.currentQuestionIndex = 0, !.questions = qs]
            ELSE [c EXCEPT !.showSummary = TRUE]

\* the setters of the effect on [currentQuestionIndex, questions, showSummary]
QuestionEffect(s) ==
    [s EXCEPT !.isAnswering = FALSE, !.userInput = <<>>, !.feedback = "null",
              !.hasAttempted = FALSE, !.canAdvance = FALSE, !.attempts = 0,
              !.isAnswerRevealed = FALSE, !.activation = s.activation + 1,
              !.checks = 0]

\* a duration in ticks, rounded to the nearest tick
Ticks(ms) == (2 * ms + TickMs) \div (2 * TickMs)

\* Time a feedback sequence stays suspended in its stage: the timeout, preceded
\* in the later stages by playMelody at 180 and at 120 bpm (60000 / bpm ms a note)
StageDuration(stage, len) ==
    IF stage = "wait600" THEN Ticks(600)
    ELSE IF stage = "wait500" THEN Ticks((60000 * len) \div 180 + 500)
    ELSE Ticks((60000 * len) \div 120 + 700)

\* Time playChallenge stays suspended: cadence 800, timeout 800, and
\* playMelody at 100 bpm
PlayDuration(q) == Ticks(800 + 800 + (60000 * Len(q.targetMelody)) \div 100)

\* The event loop serves a timer that is due before an event that arrives
\* later: a handler of the learner runs when no timer is due
NoTimerDue == \A c \in feedbacks \cup plays : c.due > 0

\* playChallenge called for the question q of activation a, up to its first await
StartedPlay(a, q) == [activation |-> a, due |-> PlayDuration(q)]

\* handleNext called on the state s, and the effect its re-render runs: the
\* effect does nothing when the summary is shown, and otherwise resets the
\* question state and the token and calls playChallenge
Advance(s, qs) ==
    LET n == AfterNext(s, qs)
    IN IF n.showSummary
       THEN /\ ses' = n
            /\ UNCHANGED <<feedbackSequenceId, plays>>
       ELSE /\ n.mode = "practice" => n.activation < MaxActivations
            /\ ses' = QuestionEffect(n)
            /\ feedbackSequenceId' = 0
            /\ plays' = plays \cup
                  {StartedPlay(n.activation + 1, n.questions[n.currentQuestionIndex + 1])}

SessionInit ==
    /\ stats = INITIAL_STATS
    /\ mountStats = INITIAL_STATS
    /\ objects = Mounted("INITIAL_STATS")
    /\ user = NoUser
    /\ localStore = Doc(INITIAL_STATS)
    /\ cloud = NoDoc
    /\ cloudPending = NoDoc
    /\ sync = IdleSync
    /\ clock = StartClock(UtcZone)
    /\ heatUpdates = 0
    /\ sessions = 0
    /\ feedbackSequenceId = 0
    /\ feedbacks = {}
    /\ \E m \in SessionModes, qs \in Batches :
          /\ ses = MountedSession(m, qs)
          /\ plays = {StartedPlay(1, qs[1])}
    /\ NoCalls

\* playChallenge runs to its end: cadence, 800 ms, melody, setIsAnswering(true)
playChallengeEnds(p) ==
    /\ p \in plays
    /\ p.due = 0
    /\ ~ses.ended
    /\ plays' = plays \ {p}
    /\ ses' = [ses EXCEPT !.isAnswering = TRUE]
    /\ UNCHANGED <<feedbackSequenceId, feedbacks>>
    /\ UNCHANGED profileVars
    /\ UNCHANGED callVars

\* REPEAT: playChallenge called from the header button, up to its first await
repeatChallenge ==
    /\ NoTimerDue
    /\ ScreenShown
    /\ ses.isAnswering
    /\ Cardinality(plays) < MaxPlays
    /\ ses' = IF ~ses.hasAttempted /\ ses.attempts = 0
              THEN [ses EXCEPT !.isAnswering = FALSE, !.userInput = <<>>,
                               !.feedback = "null", !.canAdvance = FALSE]
              ELSE ses
    /\ plays' = plays \cup {StartedPlay(ses.activation, currentQ)}
    /\ UNCHANGED <<feedbackSequenceId, feedbacks>>
    /\ UNCHANGED profileVars
    /\ UNCHANGED callVars

handleNoteClick(midi) ==
    /\ NoTimerDue
    /\ ScreenShown /\ ~Covered
    /\ ses.isAnswering /\ ~ses.canAdvance
    /\ Len(ses.userInput) < Len(currentQ.targetMelody)
    /\ ses' = [ses EXCEPT !.userInput = Append(ses.userInput, midi)]
    /\ UNCHANGED <<feedbackSequenceId, feedbacks, plays>>
    /\ UNCHANGED profileVars
    /\ UNCHANGED callVars

handleBackspace ==
    /\ NoTimerDue
    /\ AnswerButtons /\ ~isExam
    /\ ses.userInput # <<>>
    /\ ses' = [ses EXCEPT !.userInput = SubSeq(ses.userInput, 1, Len(ses.userInput) - 1)]
    /\ UNCHANGED <<feedbackSequenceId, feedbacks, plays>>
    /\ UNCHANGED profileVars
    /\ UNCHANGED callVars

handleSkip(qs) ==
    /\ NoTimerDue
    /\ AnswerButtons /\ isExam
    /\ ses.mistakes < MaxMistakes
    /\ UpdatesHeatmap(AllNotes(currentQ, FALSE))
    /\ Advance([ses EXCEPT !.mistakes = ses.mistakes + 1], qs)
    /\ UNCHANGED feedbacks
    /\ UNCHANGED <<mountStats, user, cloud, sync, clock, heatUpdates, sessions>>
    /\ UNCHANGED callVars

\* mutant of AwardedXP: a correct answer is awarded on every attempt
AwardedXP_OnEveryAttempt(s, q) == s.xpGained + 10 * Len(q.targetMelody)

\* xpGained after a correct check in standard mode
AwardedXP(s, q) ==
    IF ~s.hasAttempted THEN s.xpGained + 10 * Len(q.targetMelody) ELSE s.xpGained

\* mutant of RevealedAfterWrong: a wrong check never reveals the answer
RevealedAfterWrong_Never(s) == s.isAnswerRevealed

\* isAnswerRevealed after a wrong check: if (attempts + 1 >= 3) setIsAnswerRevealed(true)
RevealedAfterWrong(s) == IF s.attempts + 1 >= 3 THEN TRUE ELSE s.isAnswerRevealed

\* handleCheckSequence up to its return or its first await.  CHECK is rendered
\* while isAnswering && !canAdvance and disabled only by the length of the
\* input.
handleCheckSequence(qs) ==
    /\ NoTimerDue
    /\ CheckButton
    /\ Len(ses.userInput) = Len(currentQ.targetMelody)
    /\ LET q == currentQ
           isCorrect == ses.userInput = q.targetMelody
           earnedXP == 10 * Len(q.targetMelody)
       IN IF isExam
          THEN /\ isCorrect \/ ses.mistakes < MaxMistakes
               /\ UpdatesHeatmap(IF isCorrect THEN AllNotes(q, TRUE)
                                 ELSE Mismatches(q, ses.userInput))
               /\ Advance(IF isCorrect
                          THEN [ses EXCEPT !.xpGained = ses.xpGained + earnedXP,
                                           !.checks = ses.checks + 1]
                          ELSE [ses EXCEPT !.mistakes = ses.mistakes + 1,
                                           !.checks = ses.checks + 1], qs)
               /\ UNCHANGED feedbacks
          ELSE IF isCorrect
          THEN /\ UpdatesHeatmap(AllNotes(q, TRUE))
               /\ ses' = [ses EXCEPT !.feedback = "correct",
                                     !.xpGained = AwardedXP(ses, q),
                                     !.canAdvance = TRUE,
                                     !.hasAttempted = TRUE,
                                     !.checks = ses.checks + 1]
               /\ UNCHANGED <<feedbackSequenceId, feedbacks, plays>>
          ELSE /\ ses.mistakes < MaxMistakes
               /\ UpdatesHeatmap(Mismatches(q, ses.userInput))
               /\ ses' = [ses EXCEPT !.mistakes = ses.mistakes + 1,
                                     !.checks = ses.checks + 1,
                                     !.hasAttempted = TRUE,
                                     !.attempts = ses.attempts + 1,
                                     !.isAnswerRevealed = RevealedAfterWrong(ses),
                                     !.feedback = "wrong",
                                     !.showOverlay = TRUE]
               /\ feedbackSequenceId' = feedbackSequenceId + 1
               /\ feedbacks' = feedbacks \cup
                     {[currentSeqId |-> feedbackSequenceId + 1, pc |-> "wait600",
                       activation |-> ses.activation, len |-> Len(q.targetMelody),
                       due |-> StageDuration("wait600", Len(q.targetMelody)),
                       retried |-> FALSE, nexted |-> FALSE]}
               /\ UNCHANGED plays
    /\ UNCHANGED <<mountStats, user, cloud, sync, clock, heatUpdates, sessions>>
    /\ UNCHANGED callVars

\* A suspended feedback sequence f resumes after its timeout and reads the
\* token: on a mismatch it returns; otherwise it starts its next playback and
\* suspends again, or, after the last timeout, plays the reference note and
\* sets canAdvance (no event is served between playNote and the last check).
feedbackResumes(f) ==
    /\ f \in feedbacks
    /\ f.due = 0
    /\ ~ses.ended
    /\ LET suspended(stage) == [f EXCEPT !.pc = stage, !.due = StageDuration(stage, f.len)]
       IN IF feedbackSequenceId # f.currentSeqId
          THEN /\ feedbacks' = feedbacks \ {f}
               /\ UNCHANGED ses
          ELSE IF f.pc = "wait600"
          THEN /\ feedbacks' = (feedbacks \ {f}) \cup {suspended("wait500")}
               /\ UNCHANGED ses
          ELSE IF f.pc = "wait500"
          THEN /\ feedbacks' = (feedbacks \ {f}) \cup {suspended("wait700")}
               /\ UNCHANGED ses
          ELSE /\ feedbacks' = feedbacks \ {f}
               /\ ses' = [ses EXCEPT !.canAdvance = TRUE]
    /\ UNCHANGED <<feedbackSequenceId, plays>>
    /\ UNCHANGED profileVars
    /\ UNCHANGED callVars

\* the step of f that passes its token check: a playback starts, and after the
\* last one canAdvance is set
feedbackActs(f) ==
    /\ feedbackSequenceId = f.currentSeqId
    /\ feedbackResumes(f)

\* RETRY of the overlay
handleRetry ==
    /\ NoTimerDue
    /\ OverlayShown
    /\ feedbackSequenceId' = feedbackSequenceId + 1
    /\ ses' = [ses EXCEPT !.showOverlay = FALSE, !.feedback = "null", !.userInput = <<>>,
                          !.canAdvance = FALSE, !.isAnswering = TRUE]
    /\ feedbacks' = {[f EXCEPT !.retried = TRUE] : f \in feedbacks}
    /\ UNCHANGED plays
    /\ UNCHANGED profileVars
    /\ UNCHANGED callVars

\* NEXT of the overlay: setShowOverlay(false); handleNext()
overlayNext(qs) ==
    /\ NoTimerDue
    /\ OverlayShown
    /\ Advance([ses EXCEPT !.showOverlay = FALSE], qs)
    /\ feedbacks' = {[f EXCEPT !.nexted = TRUE] : f \in feedbacks}
    /\ UNCHANGED profileVars
    /\ UNCHANGED callVars

\* Reveal Answer of the overlay
revealAnswer ==
    /\ NoTimerDue
    /\ OverlayShown
    /\ ~ses.isAnswerRevealed
    /\ ses' = [ses EXCEPT !.isAnswerRevealed = TRUE]
    /\ UNCHANGED <<feedbackSequenceId, feedbacks, plays>>
    /\ UNCHANGED profileVars
    /\ UNCHANGED callVars

\* NEXT of the action row
handleNext(qs) ==
    /\ NoTimerDue
    /\ ScreenShown /\ ~Covered
    /\ ses.isAnswering /\ ses.canAdvance
    /\ Advance(ses, qs)
    /\ UNCHANGED feedbacks
    /\ UNCHANGED profileVars
    /\ UNCHANGED callVars

\* sum of 10 * targetMelody.length over the batch
RECURSIVE maxPotentialXP(_)
maxPotentialXP(qs) ==
    IF qs = <<>> THEN 0 ELSE 10 * Len(qs[1].targetMelody) + maxPotentialXP(Tail(qs))

\* mutant of Passed: a session passes only above 0.8 of maxPotentialXP
Passed_Above(s) == 10 * s.xpGained > 8 * maxPotentialXP(s.questions)

\* xpGained >= maxPotentialXP * 0.8
Passed(s) == 10 * s.xpGained >= 8 * maxPotentialXP(s.questions)

\* Continue of the summary: onComplete(xpGained, passed, maxPotentialXP, challenge?.id)
handleSummaryContinue ==
    /\ NoTimerDue
    /\ ses.showSummary
    /\ ~ses.ended
    /\ ses' = [ses EXCEPT !.ended = TRUE,
                          !.result = <<[xpGained |-> ses.xpGained, passed |-> Passed(ses),
                                        maxPotentialXP |-> maxPotentialXP(ses.questions),
                                        challengeId |-> ses.challengeId]>>]
    /\ sessions' = sessions + 1
    /\ stats' = nextStats(stats, ses.xpGained, Passed(ses), ses.challengeId, clock)
    /\ objects' = NewObject
    /\ SaveEffect(stats', user)
    /\ UNCHANGED <<feedbackSequenceId, feedbacks, plays>>
    /\ UNCHANGED <<mountStats, user, cloud, sync, clock, heatUpdates>>
    /\ UNCHANGED callVars

\* Time passes by one tick: no timer is due, and every pending one comes closer
tick ==
    /\ ~ses.ended
    /\ feedbacks \cup plays # {}
    /\ NoTimerDue
    /\ feedbacks' = {[f EXCEPT !.due = f.due - 1] : f \in feedbacks}
    /\ plays' = {[p EXCEPT !.due = p.due - 1] : p \in plays}
    /\ UNCHANGED <<ses, feedbackSequenceId>>
    /\ UNCHANGED profileVars
    /\ UNCHANGED callVars

\* CHECK is clicked where the overlay does not cover it
clickCheck(qs) == ~Covered /\ handleCheckSequence(qs)

\* Enter or Space on CHECK under the overlay: the button keeps the focus its
\* click gave it
pressCheck(qs) == Covered /\ handleCheckSequence(qs)

SessionNext ==
    \/ tick
    \/ \E p \in plays : playChallengeEnds(p)
    \/ repeatChallenge
    \/ \E midi \in Keys : handleNoteClick(midi)
    \/ handleBackspace
    \/ \E qs \in Batches : handleSkip(qs)
    \/ \E qs \in Batches : clickCheck(qs)
    \/ \E f \in feedbacks : feedbackResumes(f)
    \/ handleRetry
    \/ \E qs \in Batches : overlayNext(qs)
    \/ revealAnswer
    \/ \E qs \in Batches : handleNext(qs)
    \/ handleSummaryContinue

SpecSession == SessionInit /\ [][SessionNext]_vars

\* A session that ends on a batch of one-note questions
OneNoteInit ==
    /\ stats = INITIAL_STATS
    /\ mountStats = INITIAL_STATS
    /\ objects = Mounted("INITIAL_STATS")
    /\ user = NoUser
    /\ localStore = Doc(INITIAL_STATS)
    /\ cloud = NoDoc
    /\ cloudPending = NoDoc
    /\ sync = IdleSync
    /\ clock = StartClock(UtcZone)
    /\ heatUpdates = 0
    /\ sessions = 0
    /\ feedbackSequenceId = 0
    /\ feedbacks = {}
    /\ \E m \in {m \in SessionModes : m.mode # "practice"}, qs \in OneNoteBatches :
          /\ ses = MountedSession(m, qs)
          /\ plays = {StartedPlay(1, qs[1])}
    /\ NoCalls

SpecOneNote == OneNoteInit /\ [][SessionNext]_vars

-----------------------------------------------------------------------------
(* A session of a learner who uses the keys of the computer as well: a      *)
(* challenge or an exam is mounted on its first batch.                      *)

KeyboardInit ==
    /\ stats = INITIAL_STATS
    /\ mountStats = INITIAL_STATS
    /\ objects = Mounted("INITIAL_STATS")
    /\ user = NoUser
    /\ localStore = Doc(INITIAL_STATS)
    /\ cloud = NoDoc
    /\ cloudPending = NoDoc
    /\ sync = IdleSync
    /\ clock = StartClock(UtcZone)
    /\ heatUpdates = 0
    /\ sessions = 0
    /\ feedbackSequenceId = 0
    /\ feedbacks = {}
    /\ \E m \in {m \in SessionModes : m.challengeId # NoId}, qs \in Batches :
          /\ ses = MountedSession(m, qs)
          /\ plays = {StartedPlay(1, qs[1])}
    /\ NoCalls

KeyboardNext ==
    \/ tick
    \/ \E p \in plays : playChallengeEnds(p)
    \/ repeatChallenge
    \/ \E midi \in Keys : handleNoteClick(midi)
    \/ handleBackspace
    \/ \E qs \in Batches : handleSkip(qs)
    \/ \E qs \in Batches : clickCheck(qs)
    \/ \E qs \in Batches : pressCheck(qs)
    \/ \E f \in feedbacks : feedbackResumes(f)
    \/ handleRetry
    \/ \E qs \in Batches : overlayNext(qs)
    \/ revealAnswer
    \/ \E qs \in Batches : handleNext(qs)
    \/ handleSummaryContinue

SpecKeyboard == KeyboardInit /\ [][KeyboardNext]_vars

-----------------------------------------------------------------------------
(* Claims on the profile *)

\* C1: other than by an explicit reset, no step removes an id from
\* unlockedChallenges: the set after the step is a superset of the set before.
C1_UnlockedNeverShrinks ==
    [][handleReset \/ ToSet(stats.unlockedChallenges) \subseteq ToSet(stats'.unlockedChallenges)]_vars

\* C2: other than by an explicit reset, no step lowers xp.
C2_XpNeverDecreases ==
    [][handleReset \/ stats'.xp >= stats.xp]_vars

\* C3: other than by an explicit reset, no step lowers the stored best score
\* of a challenge id (an id without an entry counts as 0).
C3_HighScoresNeverDecrease ==
    [][handleReset \/ \A id \in DOMAIN stats.highScores :
                        ScoreOf(stats'.highScores, id) >= stats.highScores[id]]_vars

\* C6 as stated: a result that did not pass leaves xp, level, unlockedChallenges,
\* highScores, streak and lastPlayedDate as they were.
C6_FailedSessionChangesOnlyHearts ==
    [][\A r \in SessionResults, id \in 0..CatalogSize :
         (handleComplete(r, id) /\ ~r.passed) =>
            /\ stats'.xp = stats.xp
            /\ stats'.level = stats.level
            /\ stats'.unlockedChallenges = stats.unlockedChallenges
            /\ stats'.highScores = stats.highScores
            /\ stats'.streak = stats.streak
            /\ stats'.lastPlayedDate = stats.lastPlayedDate]_vars

\* C6 amended: a result that did not pass adds xpGained to xp, recomputes level
\* from the new xp and takes one heart (not below 0); unlockedChallenges,
\* highScores, streak, lastPlayedDate, heatmap and theme stay as they were.
C6_FailedSessionKeepsProgress ==
    [][\A r \in SessionResults, id \in 0..CatalogSize :
         (handleComplete(r, id) /\ ~r.passed) =>
            /\ stats'.xp = stats.xp + r.xp
            /\ stats'.level = (stats'.xp \div 500) + 1
            /\ stats'.hearts = IF stats.hearts = 0 THEN 0 ELSE stats.hearts - 1
            /\ stats'.unlockedChallenges = stats.unlockedChallenges
            /\ stats'.highScores = stats.highScores
            /\ stats'.streak = stats.streak
            /\ stats'.lastPlayedDate = stats.lastPlayedDate
            /\ stats'.heatmap = stats.heatmap
            /\ stats'.theme = stats.theme]_vars

\* C6 witness: a failed challenge session and a failed Dojo session were applied
C6_Witness ==
    /\ sessions = 2
    /\ stats.hearts = 3
    /\ stats.xp = 40

\* C7: in every reachable profile state level = floor(xp / 500) + 1.
C7_LevelDerivedFromXp ==
    stats.level = (stats.xp \div 500) + 1

\* C7 witness: xp 490 came in by a cloud merge, a result with xpGained 20 was applied
C7_Witness ==
    /\ stats.xp = 510
    /\ stats.level = 2
    /\ sync.pc = "done"
    /\ sessions = 1

-----------------------------------------------------------------------------
(* Claims on syncWithCloud *)

SyncLocal == sync.localStats[1]
SyncRemote == sync.cloudStats[1]
SyncWritten == sync.written[1]
\* the call found a remote profile and computed the merge
Merged == sync.pc \in {"setDoc", "done"} /\ sync.cloudStats # NoDoc

C9_MergeResult ==
    /\ [](Merged =>
            /\ SyncWritten.xp = Max(SyncLocal.xp, SyncRemote.xp)
            /\ SyncWritten.level = Max(SyncLocal.level, SyncRemote.level)
            /\ SyncWritten.streak = Max(SyncLocal.streak, SyncRemote.streak)
            /\ ToSet(SyncWritten.unlockedChallenges) =
                  ToSet(SyncLocal.unlockedChallenges) \cup ToSet(SyncRemote.unlockedChallenges)
            /\ Cardinality(ToSet(SyncWritten.unlockedChallenges)) =
                  Len(SyncWritten.unlockedChallenges)
            /\ SyncWritten.heatmap = SyncRemote.heatmap
            /\ SyncWritten.theme = SyncLocal.theme
            /\ SyncWritten.hearts = SyncLocal.hearts
            /\ SyncWritten.lastPlayedDate = SyncLocal.lastPlayedDate)
    /\ [][(sync.pc = "getDoc" /\ sync'.pc = "setDoc" /\ sync'.cloudStats # NoDoc) =>
            localStore' = sync'.written]_vars
    /\ [][(Merged /\ sync.pc = "setDoc" /\ sync'.pc = "done" /\ ~sync'.failed) =>
            /\ cloud' = sync.written
            /\ sync'.ret = sync.written
            /\ stats' = SyncWritten
            /\ localStore' = sync.written]_vars

\* C9 witness: a completed merge in which every merged field differs between
\* the two sides
C9_Witness ==
    /\ Merged /\ sync.pc = "done" /\ ~sync.failed
    /\ SyncLocal.xp > SyncRemote.xp
    /\ SyncLocal.level > SyncRemote.level
    /\ SyncLocal.streak > SyncRemote.streak
    /\ SyncLocal.heatmap # SyncRemote.heatmap
    /\ SyncLocal.theme # SyncRemote.theme
    /\ SyncLocal.hearts # SyncRemote.hearts
    /\ SyncLocal.lastPlayedDate # SyncRemote.lastPlayedDate
    /\ ToSet(SyncLocal.unlockedChallenges) \cap ToSet(SyncRemote.unlockedChallenges) # {}

\* C10: a sync in which the fetch or the write failed is complete and has
\* returned, and installed, exactly the localStats it was given.
C10_FailureReturnsLocal ==
    sync.failed =>
        /\ sync.pc = "done"
        /\ sync.ret = sync.localStats
        /\ stats = SyncLocal

\* C10 witness: the write failed after a merge that differs from localStats was computed
C10_Witness ==
    /\ sync.failed
    /\ sync.cloudStats # NoDoc
    /\ sync.written # sync.localStats

-----------------------------------------------------------------------------
(* Claims on the wrong-answer feedback of GameSession *)

\* C4: once Retry was issued while a wrong-answer feedback sequence was pending,
\* that sequence takes no further effective step: it starts no further playback
\* and does not set canAdvance.
C4_RetryCancelsFeedback ==
    [][\A f \in feedbacks : f.retried => ~feedbackActs(f)]_vars

\* C5: once Next was issued from the wrong-answer overlay while a feedback
\* sequence was pending, that sequence takes no further effective step, be the
\* next screen the summary or the next question, and whatever is answered there.
C5_NextCancelsFeedback ==
    [][\A f \in feedbacks : f.nexted => ~feedbackActs(f)]_vars

-----------------------------------------------------------------------------
(* Claims on the progression: handleComplete *)

\* C11: applying a passed result for the challenge id c sets highScores[c] to the
\* larger of its previous value (0 when absent) and xpGained and leaves the
\* other scores alone; when c + 1 is a catalog id that is not yet unlocked it
\* adds exactly c + 1 to unlockedChallenges, and otherwise (already unlocked,
\* or c the last catalog id) unlockedChallenges is unchanged.
C11_PassRecordsScoreAndUnlocksNext ==
    [][\A r \in SessionResults, c \in CatalogIds :
         (handleComplete(r, c) /\ r.passed) =>
            /\ ScoreOf(stats'.highScores, c) = Max(ScoreOf(stats.highScores, c), r.xp)
            /\ \A k \in CatalogIds \ {c} :
                  ScoreOf(stats'.highScores, k) = ScoreOf(stats.highScores, k)
            /\ stats'.unlockedChallenges =
                  IF (c + 1) \in CatalogIds /\ (c + 1) \notin ToSet(stats.unlockedChallenges)
                  THEN Append(stats.unlockedChallenges, c + 1)
                  ELSE stats.unlockedChallenges
            /\ (c = CatalogSize => stats'.unlockedChallenges = stats.unlockedChallenges)]_vars

\* C11 witness: on a fresh profile challenge 1 was passed with xpGained 100
C11_Witness ==
    /\ sessions = 1
    /\ stats.unlockedChallenges = <<1, 2>>
    /\ stats.highScores = (1 :> 100)
    /\ stats.xp = 100

\* C12: in every reachable profile state every unlocked id k > 1 has a
\* predecessor k - 1 with a stored score above 0.
C12_UnlockedHasPassedPredecessor ==
    \A k \in ToSet(stats.unlockedChallenges) :
        k > 1 => ScoreOf(stats.highScores, k - 1) > 0

\* C12 witness: the exam was passed while locked, and the unlocked ids are not contiguous
C12_Witness ==
    /\ (CatalogSize - 1) \notin ToSet(stats.unlockedChallenges)
    /\ CatalogSize \in ToSet(stats.unlockedChallenges)
    /\ ScoreOf(stats.highScores, CatalogSize - 1) > 0

\* C13: hearts is within 0..5 in every reachable profile state, and a step
\* changes it only as a failed session (to max(0, hearts - 1)) or as a reset
\* (to 5); a passed session, a heatmap update and the installation of a sync
\* result leave it as it is.
C13_HeartsChangeOnlyByFailOrReset ==
    /\ [](stats.hearts \in 0..5)
    /\ [][stats'.hearts # stats.hearts =>
            \/ handleReset /\ stats'.hearts = 5
            \/ \E r \in SessionResults, id \in 0..CatalogSize :
                  /\ handleComplete(r, id) /\ ~r.passed
                  /\ stats'.hearts = Max(0, stats.hearts - 1)]_vars

\* C14: a passed Dojo result (no challenge id) leaves the streak unchanged when
\* lastPlayedDate is today, raises it by exactly 1 when lastPlayedDate is the
\* day before today, and sets it to 1 otherwise (an older date or none);
\* lastPlayedDate is today afterwards. A failed Dojo result leaves streak and
\* lastPlayedDate unchanged.
C14_StreakFollowsCalendar ==
    [][\A r \in SessionResults :
         handleComplete(r, NoId) =>
            LET today == toISODate(clock.now)
            IN IF r.passed
               THEN /\ stats'.lastPlayedDate = today
                    /\ stats'.streak =
                          IF stats.lastPlayedDate = today THEN stats.streak
                          ELSE IF stats.lastPlayedDate = today - 1 THEN stats.streak + 1
                          ELSE 1
               ELSE /\ stats'.streak = stats.streak
                    /\ stats'.lastPlayedDate = stats.lastPlayedDate]_vars

-----------------------------------------------------------------------------
(* Claims on the heatmap *)

\* C15: for every heatmap of 12 scores in [0, 1] and every index i of 0..11, a
\* correct update sets slot i to min(1, h[i] + 0.05) and an incorrect one to
\* max(0, h[i] - 0.10); the other 11 slots and the length are unchanged; a
\* correct update never lowers h[i], an incorrect one never raises it, and
\* every score stays in [0, 1]. (Scores are counted in twentieths.)
C15_HeatmapUpdate ==
    [][\A i \in 0..11, correct \in BOOLEAN :
         handleUpdateHeatmap(i, correct) =>
            LET h == stats.heatmap
                g == stats'.heatmap
            IN /\ g[i] = IF correct
                         THEN (IF h[i] + 1 > 20 THEN 20 ELSE h[i] + 1)
                         ELSE (IF h[i] - 2 < 0 THEN 0 ELSE h[i] - 2)
               /\ \A k \in (0..11) \ {i} : g[k] = h[k]
               /\ DOMAIN g = 0..11
               /\ (correct => g[i] >= h[i])
               /\ (~correct => g[i] <= h[i])
               /\ \A k \in 0..11 : g[k] \in 0..20]_vars

\* C15 witness: an incorrect update of a slot at 0.05 left it at 0, next to
\* slots at the highest score
C15_Witness ==
    /\ heatUpdates = 1
    /\ mountStats.heatmap[3] = 1
    /\ stats.heatmap[3] = 0
    /\ stats.heatmap[4] = 20

\* C16: for every 12-score heatmap the weak spots are exactly 4 distinct
\* indices of 0..11, in ascending order of score and, among equal scores, of
\* index; every index that is not returned has a score at least as large as
\* every returned one. The list is a function of the heatmap alone.
C16_WeakSpots ==
    LET h == stats.heatmap
        w == getWeakSpots(h)
    IN /\ Len(w) = 4
       /\ \A k \in 1..Len(w) : w[k] \in 0..11
       /\ \A k, l \in 1..Len(w) : k < l =>
             /\ w[k] # w[l]
             /\ h[w[k]] < h[w[l]] \/ (h[w[k]] = h[w[l]] /\ w[k] < w[l])
       /\ \A j \in (0..11) \ ToSet(w) : \A k \in 1..Len(w) : h[j] >= h[w[k]]

\* C16 witness: two slots were lowered below the rest, the later index lower
\* than the earlier one, and the list is filled up with the first indices of
\* the slots of equal score
C16_Witness ==
    /\ heatUpdates = 1
    /\ stats.heatmap[7] < stats.heatmap[3]
    /\ stats.heatmap[3] < stats.heatmap[0]
    /\ getWeakSpots(stats.heatmap) = <<7, 3, 0, 1>>

-----------------------------------------------------------------------------
(* Claims on the answer check of GameSession *)

\* number of target notes of q whose interval to the key center is j
NotesAt(q, j) ==
    Cardinality({k \in 1..Len(q.targetMelody) : (q.targetMelody[k] - q.keyCenter + 12) % 12 = j})

\* C17: in standard (non-exam) mode a check whose input equals the target
\* melody adds 10 x targetMelody.length to xpGained exactly when no check was
\* made before on this question, and nothing otherwise (a correct answer after
\* a wrong attempt and Retry); it raises the heatmap slot of every target note
\* by one step per note (not above 1), shows the feedback "correct" and
\* enables advancing.
C17_CorrectCheckAwardsFirstAttempt ==
    [][\A qs \in Batches :
         (handleCheckSequence(qs) /\ ~isExam /\ ses.userInput = currentQ.targetMelody) =>
            /\ ses'.xpGained = ses.xpGained +
                  (IF ses.checks = 0 THEN 10 * Len(currentQ.targetMelody) ELSE 0)
            /\ \A j \in 0..11 :
                  stats'.heatmap[j] =
                     IF stats.heatmap[j] + NotesAt(currentQ, j) > 20 THEN 20
                     ELSE stats.heatmap[j] + NotesAt(currentQ, j)
            /\ ses'.feedback = "correct"
            /\ ses'.canAdvance
            /\ ses'.currentQuestionIndex = ses.currentQuestionIndex]_vars

\* C17 witness: the second question was answered wrong, retried and then
\* answered right: the session holds the XP of the first question only
C17_Witness ==
    /\ ~isExam
    /\ ses.currentQuestionIndex = 1
    /\ ses.checks = 2
    /\ ses.feedback = "correct"
    /\ ses.canAdvance
    /\ ses.xpGained = 10

\* number of positions where the input differs from the target of q and the
\* interval of the target note to the key center is j
MismatchesAt(q, input, j) ==
    Cardinality({k \in 1..Len(input) :
                    /\ input[k] # q.targetMelody[k]
                    /\ (q.targetMelody[k] - q.keyCenter + 12) % 12 = j})

\* C18: in exam mode the feedback type stays null, the overlay is never shown,
\* Retry is never available and no feedback sequence is started; every check
\* advances in the same step, to the next question or, at the last question,
\* to the summary; a correct check adds 10 x length XP and one positive
\* heatmap update per target note, an incorrect check adds no XP and one
\* negative update for exactly the mismatched positions.
C18_ExamChecksSilently ==
    /\ [](isExam =>
            /\ ses.feedback = "null"
            /\ ~ses.showOverlay
            /\ ~OverlayShown
            /\ feedbacks = {}
            /\ feedbackSequenceId = 0)
    /\ [][\A qs \in Batches :
            (handleCheckSequence(qs) /\ isExam) =>
               LET q == currentQ
                   isCorrect == ses.userInput = q.targetMelody
                   last == ses.currentQuestionIndex = Len(ses.questions) - 1
               IN /\ IF last
                     THEN ses'.showSummary
                     ELSE /\ ses'.currentQuestionIndex = ses.currentQuestionIndex + 1
                          /\ ~ses'.showSummary
                          /\ ses'.userInput = <<>>
                  /\ ses'.xpGained = ses.xpGained +
                        (IF isCorrect THEN 10 * Len(q.targetMelody) ELSE 0)
                  /\ \A j \in 0..11 :
                        stats'.heatmap[j] =
                           IF isCorrect
                           THEN (IF stats.heatmap[j] + NotesAt(q, j) > 20 THEN 20
                                 ELSE stats.heatmap[j] + NotesAt(q, j))
                           ELSE (IF stats.heatmap[j] - 2 * MismatchesAt(q, ses.userInput, j) < 0
                                 THEN 0
                                 ELSE stats.heatmap[j] - 2 * MismatchesAt(q, ses.userInput, j))]_vars

\* C18 witness: an exam whose first question was answered right and whose last
\* question was checked with one wrong note of two, which led to the summary
C18_Witness ==
    /\ isExam
    /\ ses.showSummary
    /\ ses.checks = 1
    /\ ses.mistakes = 1
    /\ ses.xpGained = 10
    /\ stats.heatmap[4] = 9
    /\ stats.heatmap[0] = 10

-----------------------------------------------------------------------------
(* Claims on the course of a session *)

\* a step that advances: NEXT of the action row or of the overlay, and in an
\* exam Skip and every check
AdvanceStep ==
    \E qs \in Batches :
        \/ handleNext(qs)
        \/ overlayNext(qs)
        \/ handleSkip(qs)
        \/ handleCheckSequence(qs) /\ isExam

\* the question shown is being played and cannot be answered yet
Listening(s, ps) ==
    /\ ~s.isAnswering
    /\ ~s.showSummary
    /\ \E p \in ps : p.activation = s.activation

BatchNotes(qs) ==
    UNION {{<<k, n>> : n \in 1..Len(qs[k].targetMelody)} : k \in 1..Len(qs)}

\* C20: Continue of the summary hands over xpGained, passed, maxPotentialXP and
\* challengeId, where maxPotentialXP is the sum over the batch of 10 x melody
\* length, passed is true exactly when xpGained >= 0.8 x maxPotentialXP, and
\* challengeId is absent for a Dojo session and the id of the played
\* challenge otherwise.
C20_SummaryResult ==
    [][handleSummaryContinue =>
          LET r == ses'.result[1]
              maxXP == 10 * Cardinality(BatchNotes(ses.questions))
          IN /\ Len(ses'.result) = 1
             /\ r.xpGained = ses.xpGained
             /\ r.maxPotentialXP = maxXP
             /\ r.passed = (10 * ses.xpGained >= 8 * maxXP)
             /\ IF ses.mode = "dojo"
                THEN r.challengeId = NoId
                ELSE r.challengeId \in CatalogIds /\ r.challengeId = ses.challengeId
             /\ stats'.xp = stats.xp + r.xpGained]_vars

\* C20 witness: a Dojo session of five one-note questions, four of them
\* answered right at the first attempt, handed over 40 XP of 50 as passed
C20_Witness ==
    /\ ses.ended
    /\ ses.mode = "dojo"
    /\ ses.result = <<[xpGained |-> 40, passed |-> TRUE, maxPotentialXP |-> 50,
                       challengeId |-> NoId]>>

-----------------------------------------------------------------------------
(* The curriculum *)

\* the list generateCurriculum is about to return
Returning == catalog.pc = "return"

\* C21: generateCurriculum takes no input, and every call returns the same
\* list: 153 challenges whose k-th entry has the id k
C21_IdsSequential ==
    Returning =>
        /\ Len(catalog.challenges) = 153
        /\ \A k \in 1..Len(catalog.challenges) : catalog.challenges[k].id = k
        /\ \A n \in 1..Len(catalog.returned) : catalog.returned[n] = catalog.challenges

\* a second call is about to return, after a first one has returned
C21_Witness == Returning /\ Len(catalog.returned) = 1

\* C22: every level has exactly one exam; the exam has the highest id of its
\* level, modulates, draws from the 12 notes, has 20 tasks where the others
\* have 10, and is at least as long and as wide as every other challenge of
\* the level
C22_OneExamPerLevel ==
    Returning =>
        \A level \in Levels :
            LET cs == catalog.challenges
                exams == {k \in OfLevel(cs, level) : cs[k].isExam}
            IN /\ Cardinality(exams) = 1
               /\ \A e \in exams :
                     /\ cs[e].isModulating
                     /\ ToSet(cs[e].notePool) = 0..11
                     /\ cs[e].tasksCount = 20
                     /\ \A k \in OfLevel(cs, level) \ {e} :
                           /\ cs[k].id < cs[e].id
                           /\ cs[k].tasksCount = 10
                           /\ 2 * cs[k].tasksCount = cs[e].tasksCount
                           /\ cs[k].sequenceLength <= cs[e].sequenceLength
                           /\ cs[k].octaveRange <= cs[e].octaveRange

\* the list about to be returned holds an exam of every level and a challenge
\* as wide as the exam of its level
C22_Witness ==
    /\ Returning
    /\ \A level \in Levels :
          \E e \in OfLevel(catalog.challenges, level) : catalog.challenges[e].isExam
    /\ \E k, e \in 1..Len(catalog.challenges) :
          /\ catalog.challenges[e].isExam /\ ~catalog.challenges[k].isExam
          /\ catalog.challenges[k].level = catalog.challenges[e].level
          /\ catalog.challenges[k].octaveRange = catalog.challenges[e].octaveRange
          /\ catalog.challenges[e].octaveRange = 3

\* C23: every challenge of the list has an octaveRange of 1, 1.5 or 2 (in half
\* octaves: 2, 3 or 4)
C23_OctaveRanges ==
    \A k \in 1..Len(catalog.challenges) : catalog.challenges[k].octaveRange \in {2, 3, 4}

-----------------------------------------------------------------------------
(* The question generators *)

\* an interval has been drawn for the question being built
IntervalIsDrawn == gen.pc # "idle" /\ (gen.pc = "shift" \/ gen.i > 0)

\* a note has been pushed to the melody of the question being built
NoteIsPushed == gen.pc # "idle" /\ gen.pc # "shift" /\ gen.i > 0

\* the callback of Practice or of a challenge is about to return its question
QuestionIsBuilt == gen.pc = "loop" /\ ~(gen.i < gen.sequenceLength)

\* the offsets of weakSpots(heatmap) of the profile the generator was handed
WeakOffsets == ToSet(getWeakSpots(stats.heatmap))

\* the offsets of the notePools of the catalog challenges with an id up to the
\* highest unlocked id
UnlockedOffsets ==
    UNION { ToSet(CURRICULUM[k].notePool) :
              k \in {j \in 1..Len(CURRICULUM) :
                       \E u \in ToSet(stats.unlockedChallenges) : CURRICULUM[j].id <= u} }

\* C24: in the three generators every pool handed to the random draw is
\* non-empty, so that every interval and every note is a number; on an empty
\* intersection with the weak spots Practice draws from its base pool and Dojo
\* from the unlocked notes
C24_PoolNeverEmpty ==
    gen.pc # "idle" =>
        /\ gen.pool # <<>> /\ gen.weakPool # <<>>
        /\ IntervalIsDrawn =>
              /\ gen.drawnFrom # <<>>
              /\ gen.interval \in ToSet(gen.drawnFrom)
              /\ gen.interval # NaN /\ gen.note # NaN
        /\ (gen.fn = "practice" /\ gen.forceWeakSpots
              /\ ToSet(gen.pool) \cap WeakOffsets = {}) => gen.weakPool = gen.pool
        /\ (gen.fn = "dojo" /\ UnlockedOffsets \cap WeakOffsets = {}) =>
              /\ gen.weakPool = gen.pool
              /\ ToSet(gen.pool) = UnlockedOffsets

\* a forced draw of Dojo after the fallback to the unlocked notes
C24_Witness ==
    /\ gen.pc # "idle" /\ gen.fn = "dojo" /\ gen.forceWeakSpots
    /\ UnlockedOffsets \cap WeakOffsets = {}
    /\ gen.length > 0 /\ gen.drawnFrom = gen.pool

\* C25: generateDojoQuestions returns count questions; each has the key center
\* 60 and one note whose offset is an unlocked offset, and with forceWeakSpots
\* a weak unlocked offset whenever there is one
C25_DojoQuestions ==
    (gen.pc # "idle" /\ gen.fn = "dojo") =>
        /\ gen.length <= gen.count
        /\ gen.pc = "returned" => gen.length = gen.count
        /\ gen.length > 0 =>
              /\ gen.keyCenter = 60
              /\ gen.i = 1
              /\ gen.note - gen.keyCenter \in UnlockedOffsets
              /\ (gen.forceWeakSpots /\ WeakOffsets \cap UnlockedOffsets # {}) =>
                    gen.note - gen.keyCenter \in WeakOffsets \cap UnlockedOffsets

\* a forced Dojo call has returned MaxCount questions, drawn from weak unlocked
\* offsets that are not all the unlocked offsets
C25_Witness ==
    /\ gen.pc = "returned" /\ gen.fn = "dojo" /\ gen.forceWeakSpots
    /\ gen.count = MaxCount /\ gen.length = MaxCount
    /\ WeakOffsets \cap UnlockedOffsets # {}
    /\ WeakOffsets \cap UnlockedOffsets # UnlockedOffsets
    /\ gen.note - gen.keyCenter \in WeakOffsets

\* C26: generatePracticeQuestions without forceWeakSpots returns count
\* questions; Beginner: one note at an offset of the major scale from the key
\* center 60; Intermediate and Master: 3 and 5 notes at chromatic offsets, the
\* key center in 54..65
C26_PracticeQuestions ==
    (gen.pc # "idle" /\ gen.fn = "practice" /\ ~gen.forceWeakSpots) =>
        /\ gen.length <= gen.count
        /\ gen.pc = "returned" => gen.length = gen.count
        /\ QuestionIsBuilt =>
              gen.i = (CASE gen.difficulty = "Beginner" -> 1
                         [] gen.difficulty = "Intermediate" -> 3
                         [] gen.difficulty = "Master" -> 5)
        /\ gen.pc \in {"loop", "shift"} =>
              IF gen.difficulty = "Beginner"
              THEN gen.keyCenter = 60
              ELSE gen.keyCenter \in 54..65
        /\ IntervalIsDrawn =>
              IF gen.difficulty = "Beginner"
              THEN /\ gen.interval \in {0, 2, 4, 5, 7, 9, 11}
                   /\ gen.note = gen.keyCenter + gen.interval
              ELSE gen.interval \in 0..11

\* the last question of an unforced Master call of MaxCount questions is built
C26_Witness ==
    /\ gen.pc # "idle" /\ gen.fn = "practice" /\ ~gen.forceWeakSpots
    /\ gen.difficulty = "Master" /\ gen.count = MaxCount /\ gen.length = MaxCount - 1
    /\ QuestionIsBuilt /\ gen.i = 5 /\ gen.keyCenter = 65 /\ gen.interval = 11

\* C28: the heatmap update a check or a skip issues for a target note the
\* generators can push has an index in 0..11, the pitch class of the note
\* relative to the key center
C28_HeatmapIndex ==
    NoteIsPushed =>
        LET q == Question(gen.keyCenter, <<gen.note>>)
            index == AllNotes(q, FALSE)[1][1]
        IN /\ index \in 0..(HeatmapSize - 1)
           /\ index = (gen.note - gen.keyCenter) % 12
           /\ Mismatches(q, <<gen.note + 1>>) = AllNotes(q, FALSE)

\* C29: with octaveRange r > 1 a note of Practice or of a challenge is
\* keyCenter + offset + 12 s, s in -floor(r) .. floor(r) - 1; with r <= 1 it is
\* keyCenter + offset
C29_OctaveShift ==
    (NoteIsPushed /\ gen.fn # "dojo") =>
        IF gen.octaveRange > 2
        THEN \E s \in (0 - (gen.octaveRange \div 2))..((gen.octaveRange \div 2) - 1) :
                gen.note = gen.keyCenter + gen.interval + 12 * s
        ELSE gen.note = gen.keyCenter + gen.interval

-----------------------------------------------------------------------------
(* The local store *)

\* the stored text is a JSON object
StoredObject == localStore # NoDoc /\ "text" \notin DOMAIN localStore[1]

\* C27: load never raises; it returns the defaults when nothing is stored or
\* the text cannot be parsed, and otherwise the stored fields with the missing
\* fields taken from the defaults; reset clears the store and returns the
\* defaults, and a load right after it returns the defaults
C27_LoadAndReset ==
    /\ [](storage.op = "load" =>
            /\ ~storage.raised
            /\ storage.ret # NoDoc
            /\ ~StoredObject => storage.ret = Doc(INITIAL_STATS)
            /\ StoredObject =>
                  \A f \in DOMAIN INITIAL_STATS :
                      storage.ret[1][f] = IF f \in DOMAIN localStore[1]
                                          THEN localStore[1][f] ELSE INITIAL_STATS[f])
    /\ [](storage.op = "reset" =>
            /\ ~storage.raised
            /\ localStore = NoDoc
            /\ storage.ret = Doc(INITIAL_STATS))
    /\ [][(storage.op = "reset" /\ storage'.op = "load") =>
            storage'.ret = Doc(INITIAL_STATS)]_vars

\* load has returned a stored object that lacked some fields and held others
\* with values that are not the defaults
C27_Witness ==
    /\ storage.op = "load" /\ StoredObject
    /\ DOMAIN localStore[1] # DOMAIN INITIAL_STATS
    /\ "xp" \in DOMAIN localStore[1] /\ "theme" \notin DOMAIN localStore[1]
    /\ storage.ret[1].xp = 520 /\ storage.ret[1].theme = "dark"

-----------------------------------------------------------------------------
(* Playback and input *)

\* a playback started for the question shown comes to its end in this step
OwnPlaybackEnds == \E p \in plays \ plays' : p.activation = ses.activation

\* C30: for the question shown, isAnswering becomes true only at the end of a
\* playback of that question (or by RETRY, after a check of it), and a click is
\* recorded only while isAnswering is true
C30_InputOpensAfterOwnPlayback ==
    [][/\ (~ses.ended /\ ~ses.isAnswering /\ ses'.isAnswering) =>
              (OwnPlaybackEnds \/ OverlayShown)
       /\ (ses'.activation = ses.activation
              /\ Len(ses'.userInput) > Len(ses.userInput)) => ses.isAnswering]_vars

-----------------------------------------------------------------------------
(* The sync and the sessions played around it *)

\* syncWithCloud is called in this step
SyncIsCalled == sync.pc # "getDoc" /\ sync'.pc = "getDoc"

\* the auth callback installs what syncWithCloud returned in this step
SyncIsInstalled == sync.pc # "done" /\ sync'.pc = "done"

\* C31: syncWithCloud is called with the profile held in memory at that moment,
\* and the profile installed at its completion has lost neither XP nor an
\* unlocked challenge of the profile held just before
C31_SyncKeepsSessionResults ==
    [][/\ SyncIsCalled => sync'.localStats = Doc(stats)
       /\ SyncIsInstalled =>
              /\ stats'.xp >= stats.xp
              /\ ToSet(stats.unlockedChallenges) \subseteq ToSet(stats'.unlockedChallenges)]_vars

-----------------------------------------------------------------------------
(* Wrong answers in standard mode *)

\* handleCheckSequence grades the input in this step
CheckIsGraded == ses'.checks = ses.checks + 1

\* the input graded differs from the target melody
InputIsWrong == ses.userInput # currentQ.targetMelody

\* the positions of the input whose target note has the interval k and was missed
Missed(k) ==
    {i \in 1..Len(currentQ.targetMelody) :
        /\ ses.userInput[i] # currentQ.targetMelody[i]
        /\ IntervalOf(currentQ.targetMelody[i], currentQ) = k}

\* RETRY closes the overlay in this step
RetryIsPressed ==
    /\ OverlayShown /\ ~ses'.showOverlay
    /\ feedbackSequenceId' = feedbackSequenceId + 1

\* C32: in standard mode a wrong check adds 1 to mistakes, awards no XP, lowers
\* the heatmap by 0.1 for every missed position and for no other, and shows the
\* overlay; RETRY reopens the input, emptied, on the same question and keeps
\* the index, xpGained and attempts
C32_WrongCheckAndRetry ==
    [][/\ (~isExam /\ CheckIsGraded /\ InputIsWrong) =>
              /\ ses'.mistakes = ses.mistakes + 1
              /\ ses'.xpGained = ses.xpGained
              /\ \A k \in 0..(HeatmapSize - 1) :
                    stats'.heatmap[k] = Max(0, stats.heatmap[k] - 2 * Cardinality(Missed(k)))
              /\ ses'.feedback = "wrong" /\ ses'.showOverlay
              /\ ses'.currentQuestionIndex = ses.currentQuestionIndex
       /\ RetryIsPressed =>
              /\ ses'.isAnswering /\ ses'.userInput = <<>>
              /\ ses'.currentQuestionIndex = ses.currentQuestionIndex
              /\ ses'.activation = ses.activation
              /\ ses'.xpGained = ses.xpGained
              /\ ses'.attempts = ses.attempts]_vars

\* the second question was answered with its first note right and its second
\* wrong, and RETRY was pressed: the interval of the first note kept its score
C32_Witness ==
    /\ ses.mode = "challenge" /\ ses.currentQuestionIndex = 1
    /\ ses.attempts = 1 /\ ses.mistakes = 1 /\ ses.xpGained = 10
    /\ ~ses.showOverlay /\ ses.isAnswering /\ ses.userInput = <<>>
    /\ stats.heatmap[0] = 10 /\ stats.heatmap[4] = 9

\* the question effect runs in this step: another question becomes active
QuestionChanges == ses'.activation # ses.activation

\* Reveal Answer of the overlay is pressed in this step
RevealIsPressed == OverlayShown /\ ses' = [ses EXCEPT !.isAnswerRevealed = TRUE]

\* C33: attempts counts the wrong checks of the question shown, across RETRY
\* and from 0 for every new question; the third wrong check reveals the answer
\* by itself; with fewer the answer is revealed only by Reveal Answer; and a
\* revealed answer stays revealed until the next question
C33_RevealAfterThreeWrong ==
    /\ [](ses.attempts >= 3 => ses.isAnswerRevealed)
    /\ [][/\ (~isExam /\ CheckIsGraded /\ InputIsWrong) => ses'.attempts = ses.attempts + 1
          /\ (~QuestionChanges /\ ~(CheckIsGraded /\ InputIsWrong)) =>
                 ses'.attempts = ses.attempts
          /\ (QuestionChanges /\ ~ses'.ended) =>
                 (ses'.attempts = 0 /\ ~ses'.isAnswerRevealed)
          /\ (~ses.isAnswerRevealed /\ ses'.isAnswerRevealed) =>
                 \/ CheckIsGraded /\ InputIsWrong /\ ses'.attempts = 3
                 \/ RevealIsPressed
          /\ (ses.isAnswerRevealed /\ ~ses'.isAnswerRevealed) => QuestionChanges]_vars

\* the third wrong check of the second question, after two RETRYs, has
\* revealed the answer
C33_Witness ==
    /\ ses.currentQuestionIndex = 1 /\ ses.attempts = 3 /\ ses.mistakes = 3
    /\ ses.feedback = "wrong" /\ OverlayShown /\ ses.isAnswerRevealed

-----------------------------------------------------------------------------
(* Skip *)

\* SKIP is pressed in this step
SkipIsPressed == \E qs \in Batches : handleSkip(qs)

\* the positions of the target melody whose note has the interval k
Targets(k) ==
    {i \in 1..Len(currentQ.targetMelody) : IntervalOf(currentQ.targetMelody[i], currentQ) = k}

\* the step ends as handleNext ends it: input and feedback cleared, then the
\* next question with its playback started, or the summary after the last one
EndsAsAdvance ==
    /\ ses'.userInput = <<>> /\ ses'.feedback = "null"
    /\ ~ses'.isAnswering /\ ~ses'.canAdvance /\ ~ses'.hasAttempted
    /\ IF ses.currentQuestionIndex < Len(ses.questions) - 1
       THEN /\ ses'.currentQuestionIndex = ses.currentQuestionIndex + 1
            /\ ses'.activation = ses.activation + 1
            /\ ~ses'.showSummary
            /\ \E p \in plays' \ plays : p.activation = ses'.activation
       ELSE /\ ses'.showSummary
            /\ ses'.currentQuestionIndex = ses.currentQuestionIndex
            /\ plays' = plays

\* C34: SKIP adds exactly 1 to mistakes, lowers the heatmap by 0.1 for every
\* note of the target melody whatever was typed, awards no XP, and then does
\* what an advance does
C34_SkipCountsAsMistake ==
    [][SkipIsPressed =>
          /\ ses'.mistakes = ses.mistakes + 1
          /\ ses'.xpGained = ses.xpGained
          /\ \A k \in 0..(HeatmapSize - 1) :
                stats'.heatmap[k] = Max(0, stats.heatmap[k] - 2 * Cardinality(Targets(k)))
          /\ EndsAsAdvance]_vars

\* both questions of an exam were skipped, the second with a note typed
C34_Witness ==
    /\ isExam /\ ses.showSummary /\ ses.mistakes = 2 /\ ses.xpGained = 0
    /\ ses.currentQuestionIndex = 1
    /\ stats.heatmap[4] = 6 /\ stats.heatmap[0] = 8

-----------------------------------------------------------------------------
(* The questions of a challenge *)

\* the challenge generateChallengeQuestions was called with
CalledChallenge == CURRICULUM[gen.challengeId]

\* the callback returns its question in this step
QuestionIsReturned == gen.pc = "loop" /\ gen'.pc = "callback"

\* C35: generateChallengeQuestions(c) returns c.tasksCount questions, each of
\* c.sequenceLength notes; every note is keyCenter plus an element of
\* c.notePool up to octaves; keyCenter is in 54..65, and it is 60 unless c
\* modulates or the roll Math.random() > 0.8 came true
C35_ChallengeQuestions ==
    /\ []((gen.pc # "idle" /\ gen.fn = "challenge") =>
            /\ gen.length <= CalledChallenge.tasksCount
            /\ gen.pc = "returned" => gen.length = CalledChallenge.tasksCount
            /\ gen.pc \in {"loop", "shift"} =>
                  /\ gen.i <= CalledChallenge.sequenceLength
                  /\ gen.keyCenter \in 54..65
                  /\ gen.modulated \/ gen.keyCenter = 60
                  /\ CalledChallenge.isModulating => gen.modulated
            /\ NoteIsPushed =>
                  \E n \in ToSet(CalledChallenge.notePool) :
                      (gen.note - gen.keyCenter - n + 48) % 12 = 0)
    /\ [][(QuestionIsReturned /\ gen.fn = "challenge") =>
              gen.i = CalledChallenge.sequenceLength]_vars

\* the last question of a challenge that does not modulate is built, of three
\* notes, in the key the roll selected
C35_Witness ==
    /\ gen.pc # "idle" /\ gen.fn = "challenge"
    /\ ~CalledChallenge.isModulating /\ gen.modulated /\ gen.keyCenter = 57
    /\ QuestionIsBuilt /\ gen.i = 3
    /\ gen.length = CalledChallenge.tasksCount - 1

-----------------------------------------------------------------------------
(* The XP of a session *)

\* the questions shown so far: those with an index up to currentQuestionIndex
QuestionsSoFar == SubSeq(ses.questions, 1, ses.currentQuestionIndex + 1)

\* C36: outside Practice, xpGained is at most 10 x melody length summed over
\* the questions with an index up to currentQuestionIndex, and so at most
\* maxPotentialXP
C36_XpBoundedByQuestions ==
    (ses.mode \notin {"none", "practice"}) =>
        /\ ses.xpGained <= maxPotentialXP(QuestionsSoFar)
        /\ ses.xpGained <= maxPotentialXP(ses.questions)

\* an exam answered right throughout has gained all of maxPotentialXP
C36_Witness ==
    /\ isExam /\ ses.showSummary /\ ses.mistakes = 0
    /\ ses.xpGained = maxPotentialXP(ses.questions) /\ ses.xpGained = 30

-----------------------------------------------------------------------------
(* The notes and the keyboard *)

\* C37: every note a generator pushes to a target melody is a key of the Piano
C37_NotesOnKeyboard ==
    NoteIsPushed => gen.note \in KEYBOARD_RANGE.start..KEYBOARD_RANGE.end

-----------------------------------------------------------------------------
(* Checks under the overlay *)

\* C38: in standard mode no check is graded while the overlay of a wrong
\* answer is showing, so that a wrong input is penalised once
C38_NoCheckUnderOverlay ==
    [][(~isExam /\ CheckIsGraded) => ~OverlayShown]_vars

-----------------------------------------------------------------------------
(* A failing sync and the local store *)

\* syncWithCloud is called in this step
SyncIsMade == sync.pc # "getDoc" /\ sync'.pc = "getDoc"

\* syncWithCloud ends in its catch in this step
SyncFails == sync.pc # "done" /\ sync'.pc = "done" /\ sync'.failed

\* C39: when syncWithCloud fails, at the fetch or at the write, the local store
\* holds what it held before the call. When the call is made the local store
\* holds the very profile the call is given (first conjunct), so after a
\* failure it has to hold that profile (second conjunct).
C39_FailedSyncKeepsLocalStore ==
    /\ [][SyncIsMade => localStore' = sync'.localStats]_vars
    /\ [][SyncFails => localStore' = sync.localStats]_vars

-----------------------------------------------------------------------------
(* The sync called again with what it returned *)

\* two profiles are the same, unlockedChallenges read as a set and highScores
\* as a map
SameProfile(a, b) ==
    /\ [a EXCEPT !.unlockedChallenges = <<>>] = [b EXCEPT !.unlockedChallenges = <<>>]
    /\ ToSet(a.unlockedChallenges) = ToSet(b.unlockedChallenges)

\* two stores hold the same: nothing, or the same profile
SameDoc(d, c) == IF d = NoDoc \/ c = NoDoc THEN d = c ELSE SameProfile(d[1], c[1])

\* the call made with the returned profile returns in this step
Resynced == sync.again /\ sync.pc # "done" /\ sync'.pc = "done" /\ ~sync'.failed

\* C40: syncWithCloud called again with the profile it returned, against the
\* remote store as it wrote it, returns the same profile (unlockedChallenges as
\* a set, highScores as a map) and leaves in the local and in the remote store
\* what they held when it was called
C40_MergeIdempotent ==
    [][Resynced =>
         /\ SameProfile(sync'.ret[1], sync.localStats[1])
         /\ SameDoc(localStore', sync.stored)
         /\ SameDoc(cloud', sync.remote)]_vars

\* C40 witness: the second call has returned, and the profile it was given was
\* a merge that differs from the profile the app started with
C40_Witness ==
    /\ sync.again /\ sync.pc = "done" /\ ~sync.failed
    /\ sync.localStats[1] # mountStats
    /\ sync.localStats[1].xp > mountStats.xp
    /\ Len(sync.localStats[1].unlockedChallenges) > Len(mountStats.unlockedChallenges)

====
